---------------------------- MODULE Spec2Model ----------------------------
(***************************************************************************)
(* Model of the exchange-transaction converter: the primitive utilities,   *)
(* the per-exchange normalizers and the configuration-driven mapping       *)
(* engine.  Python strings are TLA+ strings (TLC evaluates Len, \o and     *)
(* SubSeq on them), Python dicts are functions, and an Optional value is a *)
(* record with a `some` flag.  A function of the source with several       *)
(* local variables is written as a chain of operators, each local being    *)
(* the parameter of the next operator of the chain.                        *)
(***************************************************************************)
EXTENDS Integers, Sequences, FiniteSets, TLC

(***************************************************************************)
(* Bounds of the model.                                                    *)
(***************************************************************************)
MaxLedgerRows == 3  \* rows of a ledger-style (Firi) input file
MaxRows == 2        \* rows of every other input file of a normalizer
MaxFiles == 2
MaxChars == 3       \* characters of a text given to parse_decimal

(***************************************************************************)
(* Strings.                                                                *)
(***************************************************************************)
Char(s, i) == SubSeq(s, i, i)

LowerAlpha == "abcdefghijklmnopqrstuvwxyz"
UpperAlpha == "ABCDEFGHIJKLMNOPQRSTUVWXYZ"
Digits == "0123456789"
\* the characters of the model's strings in code-point order
AsciiOrder == " ()+,-./0123456789:ABCDEFGHIJKLMNOPQRSTUVWXYZ_abcdefghijklmnopqrstuvwxyz"

\* position of the first character c in string s, 0 when absent
IndexOf(c, s) ==
    IF \E i \in 1..Len(s) : Char(s, i) = c
    THEN CHOOSE i \in 1..Len(s) : Char(s, i) = c /\ \A j \in 1..(i - 1) : Char(s, j) # c
    ELSE 0

\* the character at position i of alphabet `to`, c itself for i = 0
MapChar(c, i, to) == IF i > 0 THEN Char(to, i) ELSE c
UpperChar(c) == MapChar(c, IndexOf(c, LowerAlpha), UpperAlpha)
LowerChar(c) == MapChar(c, IndexOf(c, UpperAlpha), LowerAlpha)

RECURSIVE Upper(_)
Upper(s) == IF s = "" THEN "" ELSE UpperChar(Head(s)) \o Upper(Tail(s))

RECURSIVE Lower(_)
Lower(s) == IF s = "" THEN "" ELSE LowerChar(Head(s)) \o Lower(Tail(s))

\* str.title() on the single-word labels of the model
Title(s) == IF s = "" THEN "" ELSE UpperChar(Head(s)) \o Lower(Tail(s))

RECURSIVE LStrip(_)
LStrip(s) == IF s # "" /\ Head(s) = " " THEN LStrip(Tail(s)) ELSE s

RECURSIVE RStripChar(_, _)
RStripChar(s, c) ==
    IF s # "" /\ Char(s, Len(s)) = c THEN RStripChar(SubSeq(s, 1, Len(s) - 1), c) ELSE s

Strip(s) == RStripChar(LStrip(s), " ")

StartsWith(s, p) == Len(s) >= Len(p) /\ SubSeq(s, 1, Len(p)) = p
EndsWith(s, p) == Len(s) >= Len(p) /\ SubSeq(s, Len(s) - Len(p) + 1, Len(s)) = p
Contains(s, p) == \E i \in 1..(Len(s) - Len(p) + 1) : SubSeq(s, i, i + Len(p) - 1) = p

RECURSIVE CountChar(_, _)
CountChar(s, c) ==
    IF s = "" THEN 0 ELSE (IF Head(s) = c THEN 1 ELSE 0) + CountChar(Tail(s), c)

RECURSIVE ReplaceChar(_, _, _)
ReplaceChar(s, c, r) ==
    IF s = "" THEN "" ELSE (IF Head(s) = c THEN r ELSE Head(s)) \o ReplaceChar(Tail(s), c, r)

\* Python's < on strings (code-point order)
RECURSIVE StrLess(_, _)
StrLess(a, b) ==
    IF b = "" THEN FALSE
    ELSE IF a = "" THEN TRUE
    ELSE IF Head(a) = Head(b) THEN StrLess(Tail(a), Tail(b))
    ELSE IndexOf(Head(a), AsciiOrder) < IndexOf(Head(b), AsciiOrder)

StrLeq(a, b) == a = b \/ StrLess(a, b)

RECURSIVE IntToStr(_)
IntToStr(n) == IF n < 10 THEN Char(Digits, n + 1) ELSE IntToStr(n \div 10) \o Char(Digits, (n % 10) + 1)

RECURSIVE Pow10(_)
Pow10(k) == IF k <= 0 THEN 1 ELSE 10 * Pow10(k - 1)

RECURSIVE Zeros(_)
Zeros(k) == IF k <= 0 THEN "" ELSE "0" \o Zeros(k - 1)

\* the least and the greatest member of a non-empty set of integers
Least(S) == CHOOSE i \in S : \A o \in S : i <= o
Greatest(S) == CHOOSE i \in S : \A o \in S : o <= i

RECURSIVE Flatten(_)
\* the concatenation of a sequence of sequences
Flatten(seqs) == IF seqs = <<>> THEN <<>> ELSE Head(seqs) \o Flatten(Tail(seqs))

RECURSIVE Distinct(_)
\* the values of a sequence in order of first appearance
Distinct(seq) ==
    IF seq = <<>> THEN <<>>
    ELSE IF \E i \in 1..(Len(seq) - 1) : seq[i] = seq[Len(seq)]
    THEN Distinct(SubSeq(seq, 1, Len(seq) - 1))
    ELSE Append(Distinct(SubSeq(seq, 1, Len(seq) - 1)), seq[Len(seq)])

(***************************************************************************)
(* Optional strings and dict access.                                       *)
(***************************************************************************)
NoneStr == [some |-> FALSE, v |-> ""]
SomeStr(s) == [some |-> TRUE, v |-> s]

\* row.get(key)
Get(row, key) == IF key \in DOMAIN row THEN SomeStr(row[key]) ELSE NoneStr
\* row.get(key, default)
GetOr(row, key, default) == IF key \in DOMAIN row THEN row[key] ELSE default
\* (row.get(key) or "")
GetOrEmpty(row, key) == IF key \in DOMAIN row THEN row[key] ELSE ""
\* truthiness of an Optional[str]
Truthy(opt) == opt.some /\ opt.v # ""
\* (a or b) for strings
OrStr(a, b) == IF a # "" THEN a ELSE b

(***************************************************************************)
(* Decimals: sign, coefficient and exponent, as Python's Decimal.          *)
(***************************************************************************)
NoneDec == [some |-> FALSE, neg |-> FALSE, coef |-> 0, exp |-> 0]
Dec(neg, coef, exp) == [some |-> TRUE, neg |-> neg, coef |-> coef, exp |-> exp]
DecZero == Dec(FALSE, 0, 0)

IsDigit(c) == IndexOf(c, Digits) > 0
AllDigits(s) == \A i \in 1..Len(s) : IsDigit(Char(s, i))

RECURSIVE _clean(_)
\* _DECIMAL_CLEANER.sub("", s): drops every character but digits, ',', '-' and '.'
_clean(s) ==
    IF s = "" THEN ""
    ELSE (IF IsDigit(Head(s)) \/ Head(s) \in {",", "-", "."} THEN Head(s) ELSE "") \o _clean(Tail(s))

RECURSIVE DigitsValue(_)
DigitsValue(s) ==
    IF s = "" THEN 0 ELSE 10 * DigitsValue(SubSeq(s, 1, Len(s) - 1)) + (IndexOf(Char(s, Len(s)), Digits) - 1)

\* the Decimal of sign, integer digits and fraction digits; NoneDec when malformed
DecimalOfDigits(neg, int, frac) ==
    IF AllDigits(int) /\ AllDigits(frac) /\ Len(int) + Len(frac) > 0
    THEN Dec(neg, DigitsValue(int \o frac), 0 - Len(frac))
    ELSE NoneDec

DecimalOfBody(neg, body, dot) ==
    DecimalOfDigits(neg, IF dot = 0 THEN body ELSE SubSeq(body, 1, dot - 1),
                    IF dot = 0 THEN "" ELSE SubSeq(body, dot + 1, Len(body)))

DecimalOfUnsigned(neg, body) == DecimalOfBody(neg, body, IndexOf(".", body))

\* Decimal(text) for a text of digits, '.' and '-': NoneDec on InvalidOperation
DecimalOf(text) ==
    IF text # "" /\ Head(text) = "-" THEN DecimalOfUnsigned(TRUE, Tail(text))
    ELSE DecimalOfUnsigned(FALSE, text)

ParseCleaned(cleaned) ==
    IF cleaned = "" \/ cleaned \in {"-", "-.", "."} THEN NoneDec
    ELSE IF CountChar(cleaned, ",") > 0 /\ CountChar(cleaned, ".") = 0
    THEN DecimalOf(ReplaceChar(cleaned, ",", "."))
    ELSE DecimalOf(ReplaceChar(cleaned, ",", ""))

ParseStripped(stripped) == IF stripped = "" THEN NoneDec ELSE ParseCleaned(_clean(stripped))

parse_decimal(value) == IF ~value.some THEN NoneDec ELSE ParseStripped(Strip(value.v))

\* the signed coefficient of d at exponent e (e <= d.exp)
Scaled(d, e) == (IF d.neg THEN 0 - d.coef ELSE d.coef) * Pow10(d.exp - e)
MinExp(a, b) == IF a.exp < b.exp THEN a.exp ELSE b.exp
Abs(n) == IF n < 0 THEN 0 - n ELSE n
Signed(s, e) == Dec(s < 0, Abs(s), e)

DecAdd(a, b) == Signed(Scaled(a, MinExp(a, b)) + Scaled(b, MinExp(a, b)), MinExp(a, b))
DecMul(a, b) == Dec(a.neg # b.neg, a.coef * b.coef, a.exp + b.exp)
DecAbs(a) == Dec(FALSE, a.coef, a.exp)
\* bool(d) of a Decimal or None
DecTruthy(d) == d.some /\ d.coef # 0
\* abs(a) > abs(b)
DecAbsGreater(a, b) == Abs(Scaled(a, MinExp(a, b))) > Abs(Scaled(b, MinExp(a, b)))
\* a >= 0, a > 0, a < 0
DecGeqZero(a) == a.coef = 0 \/ ~a.neg
DecPositive(a) == a.coef # 0 /\ ~a.neg
DecNegative(a) == a.coef # 0 /\ a.neg
\* a == b
DecEq(a, b) == Scaled(a, MinExp(a, b)) = Scaled(b, MinExp(a, b))
\* (d or Decimal("0"))
OrZero(d) == IF DecTruthy(d) THEN d ELSE DecZero
\* (a or b) for Decimals
OrDec(a, b) == IF DecTruthy(a) THEN a ELSE b

\* the digits with a decimal point k places from the right
PointAt(digits, k) ==
    SubSeq(digits, 1, Len(digits) - k) \o "." \o SubSeq(digits, Len(digits) - k + 1, Len(digits))

FormatDigits(sign, digits, k) ==
    IF k = 0 THEN sign \o digits
    ELSE IF Len(digits) <= k THEN sign \o PointAt(Zeros(k - Len(digits) + 1) \o digits, k)
    ELSE sign \o PointAt(digits, k)

\* format(value, "f") for exponent <= 0
FormatF(d) == FormatDigits(IF d.neg THEN "-" ELSE "", IntToStr(d.coef), 0 - d.exp)

OrZeroText(text) == IF text = "" THEN "0" ELSE text

\* text.rstrip("0").rstrip(".") when text has a ".", then (text or "0")
TrimZeros(text) ==
    IF Contains(text, ".") THEN OrZeroText(RStripChar(RStripChar(text, "0"), "."))
    ELSE OrZeroText(text)

decimal_to_str(value) == IF ~value.some THEN "" ELSE TrimZeros(FormatF(value))

\* abs_decimal_to_str with the abs() left out
signed_decimal_to_str(value) == IF ~value.some THEN "" ELSE decimal_to_str(value)

abs_decimal_to_str(value) == IF ~value.some THEN "" ELSE decimal_to_str(DecAbs(value))

\* the context precision of Decimal arithmetic (significant digits of a quotient)
DecimalPrecision == 28

RECURSIVE StrInc(_)
\* the digit string s plus one
StrInc(s) ==
    IF s = "" THEN "1"
    ELSE IF Char(s, Len(s)) = "9" THEN StrInc(SubSeq(s, 1, Len(s) - 1)) \o "0"
    ELSE SubSeq(s, 1, Len(s) - 1) \o Char(Digits, IndexOf(Char(s, Len(s)), Digits) + 1)

RECURSIVE LongDiv(_, _, _)
\* the fraction digits of r / d until the remainder is 0 or `used` significant
\* digits reach the context precision (used = 0: no significant digit yet)
LongDiv(r, d, used) ==
    IF r = 0 \/ used >= DecimalPrecision THEN ""
    ELSE Char(Digits, ((r * 10) \div d) + 1)
         \o LongDiv((r * 10) % d, d, IF used > 0 \/ (r * 10) \div d > 0 THEN used + 1 ELSE 0)

RECURSIVE Remainder(_, _, _)
\* the remainder LongDiv(r, d, used) stops with
Remainder(r, d, used) ==
    IF r = 0 \/ used >= DecimalPrecision THEN r
    ELSE Remainder((r * 10) % d, d, IF used > 0 \/ (r * 10) \div d > 0 THEN used + 1 ELSE 0)

IsOdd(digit) == (IndexOf(digit, Digits) - 1) % 2 = 1

\* ROUND_HALF_EVEN of the digit string on the remainder r of the division by d
RoundHalfEven(digits, r, d) ==
    IF 2 * r > d \/ (2 * r = d /\ IsOdd(Char(digits, Len(digits)))) THEN StrInc(digits) ELSE digits

QuotientText(sign, digits, places) ==
    IF places = 0 THEN TrimZeros(sign \o digits) ELSE TrimZeros(sign \o PointAt(digits, places))

QuotientDigits(sign, int, frac, r, d) ==
    QuotientText(sign, RoundHalfEven(int \o frac, r, d), Len(frac))

\* n / d with sign: the integer digits count as significant when they are not "0"
QuotientOf(sign, n, d, used) ==
    QuotientDigits(sign, IntToStr(n \div d), LongDiv(n % d, d, used), Remainder(n % d, d, used), d)

Quotient(sign, n, d) == QuotientOf(sign, n, d, IF n \div d > 0 THEN Len(IntToStr(n \div d)) ELSE 0)

\* decimal_to_str(a / b) for b # 0: the quotient rounded half-even to the context
\* precision, formatted fixed-point and trimmed
quotient_to_str(a, b) ==
    Quotient(IF a.neg # b.neg THEN "-" ELSE "", a.coef * Pow10(a.exp - b.exp),
             b.coef * Pow10(b.exp - a.exp))

\* the places after which n / d terminates, 6 when it does not within 6
ExactPlaces(n, d) ==
    IF \E j \in 0..6 : (n * Pow10(j)) % d = 0 THEN Least({j \in 0..6 : (n * Pow10(j)) % d = 0}) ELSE 6

ExactQuotient(neg, n, d, places) == Dec(neg, (n * Pow10(places)) \div d, 0 - places)

\* a / b as a Decimal, for the quotients of the model that terminate
\* (the trade rows of the model give only such cost / price pairs)
DecDiv(a, b) ==
    ExactQuotient(a.neg # b.neg, a.coef * Pow10(a.exp - b.exp), b.coef * Pow10(b.exp - a.exp),
                  ExactPlaces(a.coef * Pow10(a.exp - b.exp), b.coef * Pow10(b.exp - a.exp)))

\* a price computed whenever the quantity is truthy
QuantityPrice(quote, quantity) ==
    IF DecTruthy(quantity) THEN quotient_to_str(quote, quantity) ELSE ""

\* decimal_to_str(price) for price = quote / quantity when both are truthy, else None
price_to_str(quote, quantity) ==
    IF DecTruthy(quantity) /\ DecTruthy(quote) THEN quotient_to_str(quote, quantity) ELSE ""

(***************************************************************************)
(* Timestamps.  strptime and fromisoformat are modelled on the shapes the  *)
(* model's inputs take: fixed-width fields checked position by position.   *)
(***************************************************************************)
\* YYYY-MM-DD at position i of s
IsDateAt(s, i) ==
    /\ AllDigits(SubSeq(s, i, i + 3)) /\ Char(s, i + 4) = "-"
    /\ AllDigits(SubSeq(s, i + 5, i + 6)) /\ Char(s, i + 7) = "-"
    /\ AllDigits(SubSeq(s, i + 8, i + 9))
\* HH:MM:SS at position i of s
IsTimeAt(s, i) ==
    /\ AllDigits(SubSeq(s, i, i + 1)) /\ Char(s, i + 2) = ":"
    /\ AllDigits(SubSeq(s, i + 3, i + 4)) /\ Char(s, i + 5) = ":"
    /\ AllDigits(SubSeq(s, i + 6, i + 7))

\* a UTC offset "+HH:MM" / "-HH:MM", or none
IsoOffsetOk(offset) ==
    \/ offset = ""
    \/ /\ Len(offset) = 6 /\ Char(offset, 1) \in {"+", "-"}
       /\ AllDigits(SubSeq(offset, 2, 3)) /\ Char(offset, 4) = ":"
       /\ AllDigits(SubSeq(offset, 5, 6))

IsoOf(raw, text) ==
    IF /\ Len(text) >= 19 /\ IsDateAt(text, 1) /\ Char(text, 11) \in {"T", " "}
       /\ IsTimeAt(text, 12) /\ IsoOffsetOk(SubSeq(text, 20, Len(text)))
    THEN SubSeq(text, 1, 10) \o "T" \o SubSeq(text, 12, Len(text))
    ELSE raw

\* datetime.fromisoformat(raw.replace("Z", "+00:00")).isoformat(); raw when it fails
IsoFormat(raw) ==
    IsoOf(raw, IF EndsWith(raw, "Z") THEN SubSeq(raw, 1, Len(raw) - 1) \o "+00:00" ELSE raw)

IsoStripped(raw) == IF raw = "" THEN "" ELSE IsoFormat(raw)

parse_iso_timestamp(raw) == IsoStripped(Strip(raw))

\* "%Y-%m-%d %H:%M:%S %Z" with the zone names strptime knows, else the ISO fallback
CoinbaseStripped(raw) ==
    IF raw = "" THEN ""
    ELSE IF /\ Len(raw) = 23 /\ IsDateAt(raw, 1) /\ Char(raw, 11) = " " /\ IsTimeAt(raw, 12)
            /\ SubSeq(raw, 20, 23) \in {" UTC", " GMT"}
    THEN SubSeq(raw, 1, 10) \o "T" \o SubSeq(raw, 12, 19) \o "+00:00"
    ELSE IsoFormat(raw)

parse_coinbase_timestamp(raw) == CoinbaseStripped(Strip(raw))

\* isoformat() prints the microseconds only when they are not zero
MicroText(micro) == IF DigitsValue(micro) = 0 THEN "" ELSE "." \o micro

\* "%Y-%m-%d %H:%M:%S.%f", then "%Y-%m-%d %H:%M:%S", as UTC; raw when neither fits
KrakenStripped(raw) ==
    IF raw = "" THEN ""
    ELSE IF /\ Len(raw) >= 21 /\ Len(raw) <= 26 /\ IsDateAt(raw, 1) /\ Char(raw, 11) = " "
            /\ IsTimeAt(raw, 12) /\ Char(raw, 20) = "." /\ AllDigits(SubSeq(raw, 21, Len(raw)))
    THEN SubSeq(raw, 1, 10) \o "T" \o SubSeq(raw, 12, 19)
         \o MicroText(SubSeq(raw, 21, Len(raw)) \o Zeros(26 - Len(raw))) \o "+00:00"
    ELSE IF Len(raw) = 19 /\ IsDateAt(raw, 1) /\ Char(raw, 11) = " " /\ IsTimeAt(raw, 12)
    THEN SubSeq(raw, 1, 10) \o "T" \o SubSeq(raw, 12, 19) \o "+00:00"
    ELSE raw

parse_kraken_timestamp(raw) == KrakenStripped(Strip(raw))

MonthNames == <<"Jan", "Feb", "Mar", "Apr", "May", "Jun", "Jul", "Aug", "Sep", "Oct", "Nov", "Dec">>
DayNames == {"Mon", "Tue", "Wed", "Thu", "Fri", "Sat", "Sun"}
TwoDigits(n) == IF n < 10 THEN "0" \o IntToStr(n) ELSE IntToStr(n)
FiriSuffix == " (Coordinated Universal Time)"

\* "%a %b %d %Y %H:%M:%S GMT%z (Coordinated Universal Time)"
FiriShape(raw) ==
    /\ Len(raw) = 33 + Len(FiriSuffix)
    /\ SubSeq(raw, 1, 3) \in DayNames /\ Char(raw, 4) = " "
    /\ \E m \in 1..12 : SubSeq(raw, 5, 7) = MonthNames[m]
    /\ Char(raw, 8) = " " /\ AllDigits(SubSeq(raw, 9, 10)) /\ Char(raw, 11) = " "
    /\ AllDigits(SubSeq(raw, 12, 15)) /\ Char(raw, 16) = " " /\ IsTimeAt(raw, 17)
    /\ SubSeq(raw, 25, 28) = " GMT" /\ Char(raw, 29) \in {"+", "-"}
    /\ AllDigits(SubSeq(raw, 30, 33)) /\ SubSeq(raw, 34, Len(raw)) = FiriSuffix

\* the minutes of the %z offset, signed
FiriOffset(raw) ==
    (DigitsValue(SubSeq(raw, 30, 31)) * 60 + DigitsValue(SubSeq(raw, 32, 33)))
    * (IF Char(raw, 29) = "-" THEN 0 - 1 ELSE 1)

\* the minute of the day in UTC
\* (the offsets of the model keep the instant within the same day)
FiriMinutes(raw) ==
    DigitsValue(SubSeq(raw, 17, 18)) * 60 + DigitsValue(SubSeq(raw, 20, 21)) - FiriOffset(raw)

FiriUtc(raw, minutes) ==
    SubSeq(raw, 12, 15) \o "-"
    \o TwoDigits(CHOOSE m \in 1..12 : SubSeq(raw, 5, 7) = MonthNames[m]) \o "-"
    \o SubSeq(raw, 9, 10) \o "T" \o TwoDigits(minutes \div 60) \o ":" \o TwoDigits(minutes % 60)
    \o ":" \o SubSeq(raw, 23, 24) \o "+00:00"

FiriStripped(raw) ==
    IF raw = "" THEN ""
    ELSE IF FiriShape(raw) THEN FiriUtc(raw, FiriMinutes(raw))
    ELSE IsoFormat(raw)

parse_firi_timestamp(raw) == FiriStripped(Strip(raw))

(***************************************************************************)
(* Markets and currencies.                                                 *)
(***************************************************************************)
OUTPUT_HEADERS == <<"Id", "ExchangeId", "timeStamp", "Status", "Market", "Exchange", "Side",
                    "TransactionType", "FilledQuantity", "FilledQuote", "FilledPrice", "Fee",
                    "FeeCurrency">>

FIAT_CURRENCIES == {"NOK", "USD", "EUR", "GBP", "SEK", "DKK", "CHF"}

is_fiat(currency) == Upper(Strip(currency)) \in FIAT_CURRENCIES

JoinMarket(base_clean, quote_clean) ==
    IF base_clean = "" /\ quote_clean = "" THEN ""
    ELSE IF quote_clean = "" THEN base_clean
    ELSE base_clean \o "-" \o quote_clean

format_market(base, quote) == JoinMarket(Upper(Strip(base)), Upper(Strip(quote)))

\* the quote suffixes split_market tries, longest first
QuoteCandidates == FIAT_CURRENCIES \cup {"USDC", "USDT", "BTC", "ETH"}

Longest(hits) == CHOOSE q \in hits : \A o \in hits : Len(o) <= Len(q)

SplitAt(cleaned, quote) ==
    [base |-> SubSeq(cleaned, 1, Len(cleaned) - Len(quote)), quote |-> SomeStr(quote)]

SplitOn(cleaned, hits) ==
    IF hits # {} THEN SplitAt(cleaned, Longest(hits))
    ELSE IF Len(cleaned) > 3 THEN SplitAt(cleaned, SubSeq(cleaned, Len(cleaned) - 2, Len(cleaned)))
    ELSE [base |-> cleaned, quote |-> NoneStr]

SplitCleaned(cleaned) ==
    IF cleaned = "" THEN [base |-> "", quote |-> NoneStr]
    ELSE SplitOn(cleaned, {q \in QuoteCandidates : EndsWith(cleaned, q) /\ cleaned # q})

\* split_market returns (base, quote); a quote of None is [some |-> FALSE]
split_market(symbol) == SplitCleaned(Upper(Strip(symbol)))

(***************************************************************************)
(* Canonical records.  A dict literal of a mapper is a function from its   *)
(* keys; the records a normalizer returns are rebuilt column by column and *)
(* are sequences of <<key, value>> pairs, which keeps the key order.       *)
(***************************************************************************)
Record(id, exchange_id, time, status, market, exchange, side, type, quantity, quote, price,
       fee, fee_currency) ==
    [Id |-> id, ExchangeId |-> exchange_id, timeStamp |-> time, Status |-> status,
     Market |-> market, Exchange |-> exchange, Side |-> side, TransactionType |-> type,
     FilledQuantity |-> quantity, FilledQuote |-> quote, FilledPrice |-> price, Fee |-> fee,
     FeeCurrency |-> fee_currency]

\* _ensure_columns leaving out the columns whose value is empty
FilledColumnsOnly(row) ==
    SelectSeq([i \in 1..Len(OUTPUT_HEADERS) |-> <<OUTPUT_HEADERS[i], GetOr(row, OUTPUT_HEADERS[i], "")>>],
              LAMBDA column : column[2] # "")

\* {column: row.get(column, "") for column in OUTPUT_HEADERS}
_ensure_columns(row) ==
    [i \in 1..Len(OUTPUT_HEADERS) |-> <<OUTPUT_HEADERS[i], GetOr(row, OUTPUT_HEADERS[i], "")>>]

EnsureAll(mapped_rows) == [i \in 1..Len(mapped_rows) |-> _ensure_columns(mapped_rows[i])]

\* the keys of an ordered record, and the value under a key
Keys(rec) == [i \in 1..Len(rec) |-> rec[i][1]]
HasKey(rec, key) == \E i \in 1..Len(rec) : rec[i][1] = key
Field(rec, key) == rec[CHOOSE i \in 1..Len(rec) : rec[i][1] = key][2]

InsertAt(sorted, item, at) == SubSeq(sorted, 1, at - 1) \o <<item>> \o SubSeq(sorted, at, Len(sorted))

\* list.sort(key=lambda item: item.get("timeStamp", "")): stable, ascending
SortKey(item) == GetOr(item, "timeStamp", "")

\* the first position whose key is greater than `key`, one past the end when none is
FirstLater(keys, key) ==
    IF \E i \in 1..Len(keys) : StrLess(key, keys[i])
    THEN Least({i \in 1..Len(keys) : StrLess(key, keys[i])})
    ELSE Len(keys) + 1

InsertSorted(sorted, item) ==
    InsertAt(sorted, item, FirstLater([i \in 1..Len(sorted) |-> SortKey(sorted[i])], SortKey(item)))

\* the records left in the order they were appended
AsAppended(items) == items

RECURSIVE SortByTimeStamp(_)
SortByTimeStamp(items) ==
    IF items = <<>> THEN <<>>
    ELSE InsertSorted(SortByTimeStamp(SubSeq(items, 1, Len(items) - 1)), items[Len(items)])

(***************************************************************************)
(* Firi: ledger-style, trade-list and order-list normalizers.              *)
(***************************************************************************)
MATCH_ACTION == "Match"
MATCH_FEE_ACTION == "MatchFee"
STAKING_REWARD_ACTION == "StakingReward"
BANK_DEPOSIT_ACTION == "BankDeposit"
BANK_WITHDRAW_ACTION == "BankWithdrawal"
INTERNAL_ACTIONS == {"InternalTransfer", "Stake"}

\* a dict of totals is the sequence of its (currency, amount) items in insertion order
Total(currency, amount) == [currency |-> currency, amount |-> amount]

\* totals[currency] = totals.get(currency, Decimal("0")) + amount
AddTotal(totals, currency, amount) ==
    IF \E i \in 1..Len(totals) : totals[i].currency = currency
    THEN [i \in 1..Len(totals) |->
            IF totals[i].currency = currency
            THEN Total(currency, DecAdd(totals[i].amount, amount))
            ELSE totals[i]]
    ELSE Append(totals, Total(currency, DecAdd(DecZero, amount)))

\* one iteration of the loop of _sum_amounts: a row without currency is skipped
AddRow(totals, currency, amount) ==
    IF currency = "" THEN totals ELSE AddTotal(totals, currency, amount)

RECURSIVE SumAmountsInto(_, _)
SumAmountsInto(totals, rows) ==
    IF rows = <<>> THEN totals
    ELSE SumAmountsInto(AddRow(totals, Upper(GetOrEmpty(Head(rows), "Currency")),
                               OrZero(parse_decimal(Get(Head(rows), "Amount")))),
                        Tail(rows))

_sum_amounts(rows) == SumAmountsInto(<<>>, rows)

\* the first item of the largest absolute amount, <<>> for no items
RECURSIVE LargestOf(_, _)
LargestOf(totals, candidate) ==
    IF totals = <<>> THEN candidate
    ELSE LargestOf(Tail(totals),
                   IF candidate = <<>> \/ DecAbsGreater(Head(totals).amount, candidate[1].amount)
                   THEN <<Head(totals)>> ELSE candidate)

SelectFrom(totals, candidate) ==
    IF candidate # <<>> THEN candidate[1]
    ELSE IF totals # <<>> THEN LargestOf(totals, <<>>)[1]
    ELSE Total("", DecZero)

\* _select_currency without the fiat filter: the largest absolute amount of all
LargestOfAll(totals, prefer_fiat) == SelectFrom(totals, <<>>)

_select_currency(totals, prefer_fiat) ==
    SelectFrom(totals, LargestOf(SelectSeq(totals, LAMBDA t : prefer_fiat = is_fiat(t.currency)), <<>>))

ActionOf(row) == Strip(GetOrEmpty(row, "Action"))

\* (row.get("Match ID") or row.get("MatchId") or "").strip()
MatchIdOf(row) == Strip(OrStr(GetOrEmpty(row, "Match ID"), GetOrEmpty(row, "MatchId")))

GroupLegs(legs, ids) ==
    [g \in 1..Len(ids) |->
        [match_id |-> ids[g], rows |-> SelectSeq(legs, LAMBDA r : MatchIdOf(r) = ids[g])]]

MatchIds(legs) == Distinct([i \in 1..Len(legs) |-> MatchIdOf(legs[i])])

LegsOf(legs) == GroupLegs(legs, MatchIds(legs))

\* the groups of the Match rows only: a match id seen on fee rows alone has no group
MatchLegGroups(rows) ==
    LegsOf(SelectSeq(rows, LAMBDA r : ActionOf(r) = MATCH_ACTION /\ MatchIdOf(r) # ""))

\* the groups in order of first appearance, each with its rows in file order
_group_matches(rows) ==
    LegsOf(SelectSeq(rows, LAMBDA r : ActionOf(r) \in {MATCH_ACTION, MATCH_FEE_ACTION}
                                      /\ MatchIdOf(r) # ""))

\* min() of the non-empty strings of a sequence, "" when there is none
MinString(seq) ==
    IF \A i \in 1..Len(seq) : seq[i] = "" THEN ""
    ELSE seq[CHOOSE i \in 1..Len(seq) :
                seq[i] # "" /\ \A o \in 1..Len(seq) : seq[o] # "" => StrLeq(seq[i], seq[o])]

MatchRecord(match_id, rows, base, quote, fee) ==
    Record("firi-match-" \o match_id, match_id,
           MinString([i \in 1..Len(rows) |-> parse_firi_timestamp(GetOr(rows[i], "Created at", ""))]),
           "COMPLETED", format_market(base.currency, OrStr(quote.currency, "UNKNOWN")), "FIRI",
           IF DecGeqZero(base.amount) THEN "BUY" ELSE "SELL", "TRADE",
           abs_decimal_to_str(DecAbs(base.amount)), abs_decimal_to_str(DecAbs(quote.amount)),
           price_to_str(DecAbs(quote.amount), DecAbs(base.amount)),
           abs_decimal_to_str(DecAbs(fee.amount)), fee.currency)

\* fee_currency, fee_total: ("", 0) unless there are fee rows
MatchFee(fee_rows) ==
    IF fee_rows # <<>> THEN _select_currency(_sum_amounts(fee_rows), TRUE) ELSE Total("", DecZero)

MatchOfTotals(match_id, rows, match_totals) ==
    MatchRecord(match_id, rows, _select_currency(match_totals, FALSE),
                _select_currency(match_totals, TRUE),
                MatchFee(SelectSeq(rows, LAMBDA r : ActionOf(r) = MATCH_FEE_ACTION)))

_map_match(match_id, rows) ==
    MatchOfTotals(match_id, rows,
                  _sum_amounts(SelectSeq(rows, LAMBDA r : ActionOf(r) = MATCH_ACTION)))

_map_staking_reward(row) ==
    Record("firi-staking-" \o GetOr(row, "Transaction ID", ""), GetOr(row, "Transaction ID", ""),
           parse_firi_timestamp(GetOr(row, "Created at", "")), "COMPLETED",
           format_market(Upper(GetOrEmpty(row, "Currency")), "UNKNOWN"), "FIRI", "BUY",
           "STAKING_REWARD", abs_decimal_to_str(OrZero(parse_decimal(Get(row, "Amount")))),
           "", "", "", "")

_map_bank_entry(row, transaction_type, side) ==
    Record("firi-" \o Lower(side) \o "-" \o GetOr(row, "Transaction ID", ""),
           GetOr(row, "Transaction ID", ""), parse_firi_timestamp(GetOr(row, "Created at", "")),
           "COMPLETED", Upper(GetOrEmpty(row, "Currency")), "FIRI", side, transaction_type,
           abs_decimal_to_str(OrZero(parse_decimal(Get(row, "Amount")))), "", "", "", "")

\* one iteration of the second loop of _map_transactions: the records it appends
MapAction(row, action) ==
    IF action \in {MATCH_ACTION, MATCH_FEE_ACTION} THEN <<>>
    ELSE IF action \in INTERNAL_ACTIONS THEN <<>>
    ELSE IF action = STAKING_REWARD_ACTION THEN <<_map_staking_reward(row)>>
    ELSE IF action = BANK_DEPOSIT_ACTION THEN <<_map_bank_entry(row, "DEPOSIT", "DEPOSIT")>>
    ELSE IF action = BANK_WITHDRAW_ACTION THEN <<_map_bank_entry(row, "WITHDRAWAL", "WITHDRAW")>>
    ELSE <<>>

MapOtherActions(rows) == Flatten([i \in 1..Len(rows) |-> MapAction(rows[i], ActionOf(rows[i]))])

\* the first loop of _map_transactions: one record per group
MapMatches(grouped) == [g \in 1..Len(grouped) |-> _map_match(grouped[g].match_id, grouped[g].rows)]

_map_transactions(rows) == SortByTimeStamp(MapMatches(_group_matches(rows)) \o MapOtherActions(rows))

OrderSide(row) == IF Lower(GetOrEmpty(row, "Order Type")) = "bid" THEN "BUY" ELSE "SELL"

\* base_amount taken from the volume whatever its currency
AnyVolume(base, price, volume, cost, volume_currency) ==
    IF volume.some THEN volume
    ELSE IF cost.some /\ DecTruthy(price) THEN DecDiv(cost, price)
    ELSE NoneDec

\* base_amount of a trade row: the volume when it is in the base currency, else
\* cost / price, else None
BaseAmount(base, price, volume, cost, volume_currency) ==
    IF volume.some /\ volume_currency # "" /\ base # "" /\ volume_currency = Upper(base) THEN volume
    ELSE IF cost.some /\ DecTruthy(price) THEN DecDiv(cost, price)
    ELSE NoneDec

TradeOfAmount(row, trade_id, market, price, cost, base_amount) ==
    IF ~base_amount.some THEN <<>>
    ELSE <<Record("firi-trade-" \o trade_id, trade_id,
                  parse_firi_timestamp(GetOr(row, "Executed", "")), "COMPLETED",
                  format_market(market.base, IF Truthy(market.quote) THEN market.quote.v ELSE "UNKNOWN"),
                  "FIRI", OrderSide(row), "TRADE", abs_decimal_to_str(base_amount),
                  abs_decimal_to_str(IF DecTruthy(price) /\ DecTruthy(base_amount)
                                     THEN DecMul(price, base_amount) ELSE OrZero(cost)),
                  decimal_to_str(price), "", "")>>

TradeOfMarket(row, trade_id, market, price, cost) ==
    TradeOfAmount(row, trade_id, market, price, cost,
                  BaseAmount(market.base, price, parse_decimal(Get(row, "Volume")), cost,
                             Upper(GetOrEmpty(row, "Volume currency"))))

TradeOfId(row, trade_id) ==
    IF trade_id = "" THEN <<>>
    ELSE TradeOfMarket(row, trade_id, split_market(Upper(GetOrEmpty(row, "Market"))),
                       parse_decimal(Get(row, "Price")), parse_decimal(Get(row, "Cost")))

\* one row of _map_trades: <<record>>, or <<>> when the row is dropped
_map_trade_row(row) == TradeOfId(row, OrStr(GetOrEmpty(row, "Trade"), GetOrEmpty(row, "trade")))

_map_trades(rows) == SortByTimeStamp(Flatten([i \in 1..Len(rows) |-> _map_trade_row(rows[i])]))

OrderRecord(row, order_id, market, filled, price) ==
    Record("firi-order-" \o order_id, order_id, parse_firi_timestamp(GetOr(row, "Created at", "")),
           Upper(GetOrEmpty(row, "Status")),
           format_market(Upper(OrStr(GetOrEmpty(row, "Filled currency"), market.base)),
                         IF Truthy(market.quote) THEN market.quote.v ELSE "UNKNOWN"),
           "FIRI", OrderSide(row), "ORDER", abs_decimal_to_str(filled),
           abs_decimal_to_str(IF DecTruthy(price) /\ DecTruthy(filled) THEN DecMul(price, filled)
                              ELSE NoneDec),
           decimal_to_str(price), "", "")

OrderOfId(row, order_id) ==
    IF order_id = "" THEN <<>>
    ELSE <<OrderRecord(row, order_id, split_market(Upper(GetOrEmpty(row, "Market"))),
                       OrZero(parse_decimal(Get(row, "Filled"))), parse_decimal(Get(row, "Price")))>>

\* one row of _map_orders: <<record>>, or <<>> when the row is dropped
_map_order_row(row) == OrderOfId(row, GetOrEmpty(row, "Order ID"))

_map_orders(rows) == SortByTimeStamp(Flatten([i \in 1..Len(rows) |-> _map_order_row(rows[i])]))

\* the sub-algorithm chosen from the keys of every row, not of the first row only
MapByAnyHeader(rows, header_keys) ==
    IF \E i \in 1..Len(rows) : "Action" \in DOMAIN rows[i] THEN _map_transactions(rows)
    ELSE IF \E i \in 1..Len(rows) : "Trade" \in DOMAIN rows[i] THEN _map_trades(rows)
    ELSE IF \E i \in 1..Len(rows) : "Order ID" \in DOMAIN rows[i] THEN _map_orders(rows)
    ELSE <<>>

MapByHeader(rows, header_keys) ==
    IF "Action" \in header_keys THEN _map_transactions(rows)
    ELSE IF "Trade" \in header_keys THEN _map_trades(rows)
    ELSE IF "Order ID" \in header_keys THEN _map_orders(rows)
    ELSE <<>>

map_firi_file(rows) ==
    IF rows = <<>> THEN <<>>
    ELSE EnsureAll(MapByHeader(rows, {Strip(key) : key \in {k \in DOMAIN rows[1] : k # ""}}))

(***************************************************************************)
(* Kraken: the reference-id ledger normalizer.                             *)
(***************************************************************************)
_normalize_row(raw) ==
    [txid |-> Strip(GetOrEmpty(raw, "txid")),
     refid |-> Strip(GetOrEmpty(raw, "refid")),
     time |-> parse_kraken_timestamp(GetOrEmpty(raw, "time")),
     event_type |-> Lower(Strip(GetOrEmpty(raw, "type"))),
     subtype |-> Lower(Strip(GetOrEmpty(raw, "subtype"))),
     asset |-> Upper(Strip(GetOrEmpty(raw, "asset"))),
     amount |-> OrZero(parse_decimal(Get(raw, "amount"))),
     fee |-> OrZero(parse_decimal(Get(raw, "fee")))]

\* row.refid or row.txid
GroupKey(row) == OrStr(row.refid, row.txid)

GroupsOf(rows, keys) == [g \in 1..Len(keys) |-> SelectSeq(rows, LAMBDA r : GroupKey(r) = keys[g])]

\* the groups in order of first appearance, each a sequence of rows in file order
_group_by_refid(rows) == GroupsOf(rows, Distinct([i \in 1..Len(rows) |-> GroupKey(rows[i])]))

RewardRecord(reward) ==
    IF reward.asset = "" THEN <<>>
    ELSE <<Record(GroupKey(reward), GroupKey(reward), reward.time, "COMPLETED", reward.asset,
                  "KRAKEN", "BUY", "AIRDROP", abs_decimal_to_str(reward.amount), "", "",
                  IF DecTruthy(reward.fee) THEN abs_decimal_to_str(reward.fee) ELSE "",
                  IF DecTruthy(reward.fee) THEN reward.asset ELSE "")>>

\* <<record>>, or <<>> for None
_map_reward(rows) == RewardRecord(rows[1])

RECURSIVE DecSum(_)
\* sum((row.fee for row in rows), Decimal("0"))
DecSum(fees) == IF fees = <<>> THEN DecZero ELSE DecAdd(DecSum(SubSeq(fees, 1, Len(fees) - 1)), fees[Len(fees)])

\* timestamp: base_row.time, else receive.time, else spend.time
\* (receive and spend are <<row>>, or <<>> for None)
GroupTime(base_row, receive, spend) ==
    IF base_row.time # "" THEN base_row.time
    ELSE IF receive # <<>> /\ receive[1].time # "" THEN receive[1].time
    ELSE IF spend # <<>> THEN spend[1].time
    ELSE ""

TradeGroupRecord(side, base_row, timestamp, quote_currency, quote_amount, fee_total) ==
    Record(GroupKey(base_row), GroupKey(base_row), timestamp, "COMPLETED",
           format_market(base_row.asset, quote_currency), "KRAKEN", side, "TRADE",
           abs_decimal_to_str(DecAbs(base_row.amount)),
           IF quote_amount.some THEN abs_decimal_to_str(quote_amount) ELSE "",
           price_to_str(quote_amount, DecAbs(base_row.amount)),
           IF DecTruthy(fee_total) THEN abs_decimal_to_str(fee_total) ELSE "",
           IF DecTruthy(fee_total) THEN OrStr(quote_currency, base_row.asset) ELSE "")

\* quote_row, receive and spend are <<row>>, or <<>> for None
TradeGroupLegs(rows, side, base_row, quote_row, receive, spend) ==
    TradeGroupRecord(side, base_row, GroupTime(base_row, receive, spend),
                     IF quote_row # <<>> THEN quote_row[1].asset ELSE "",
                     IF quote_row # <<>> THEN DecAbs(quote_row[1].amount) ELSE NoneDec,
                     DecSum([i \in 1..Len(rows) |-> rows[i].fee]))

\* the receive leg as base whenever there are both legs
ReceiveIsBase(rows, positive_rows, negative_rows) ==
    IF positive_rows = <<>> /\ negative_rows = <<>> THEN <<>>
    ELSE IF positive_rows # <<>> /\ negative_rows # <<>>
    THEN <<TradeGroupLegs(rows, "BUY", positive_rows[1], <<negative_rows[1]>>,
                          <<positive_rows[1]>>, <<negative_rows[1]>>)>>
    ELSE IF negative_rows # <<>>
    THEN <<TradeGroupLegs(rows, "SELL", negative_rows[1], <<>>, <<>>, <<negative_rows[1]>>)>>
    ELSE <<TradeGroupLegs(rows, "BUY", positive_rows[1], <<>>, <<positive_rows[1]>>, <<>>)>>

TradeGroupOf(rows, positive_rows, negative_rows) ==
    IF positive_rows = <<>> /\ negative_rows = <<>> THEN <<>>
    ELSE IF positive_rows # <<>> /\ negative_rows # <<>>
    THEN IF is_fiat(positive_rows[1].asset) /\ ~is_fiat(negative_rows[1].asset)
         THEN <<TradeGroupLegs(rows, "SELL", negative_rows[1], <<positive_rows[1]>>,
                               <<positive_rows[1]>>, <<negative_rows[1]>>)>>
         ELSE <<TradeGroupLegs(rows, "BUY", positive_rows[1], <<negative_rows[1]>>,
                               <<positive_rows[1]>>, <<negative_rows[1]>>)>>
    ELSE IF negative_rows # <<>>
    THEN <<TradeGroupLegs(rows, "SELL", negative_rows[1], <<>>, <<>>, <<negative_rows[1]>>)>>
    ELSE <<TradeGroupLegs(rows, "BUY", positive_rows[1], <<>>, <<positive_rows[1]>>, <<>>)>>

\* <<record>>, or <<>> for None
_map_trade_group(rows) ==
    TradeGroupOf(rows, SelectSeq(rows, LAMBDA r : DecPositive(r.amount)),
                 SelectSeq(rows, LAMBDA r : DecNegative(r.amount)))

\* mapped.append({key: mapped_row.get(key, "") for key in OUTPUT_HEADERS}) when mapped_row
EnsureMapped(mapped_row) ==
    IF mapped_row = <<>> THEN <<>> ELSE <<_ensure_columns(mapped_row[1])>>

GroupRecord(group, event_type) ==
    IF event_type = "reward" THEN EnsureMapped(_map_reward(group))
    ELSE IF event_type \in {"trade", "spend", "receive"} THEN EnsureMapped(_map_trade_group(group))
    ELSE <<>>

\* one iteration of the loop of map_kraken_ledger: the records it appends
_map_group(group) == GroupRecord(group, group[1].event_type)

\* list.sort(key=lambda row: row.get("timeStamp", "")) on ordered records
InsertSortedRecord(sorted, item) ==
    InsertAt(sorted, item, FirstLater([i \in 1..Len(sorted) |-> Field(sorted[i], "timeStamp")],
                                      Field(item, "timeStamp")))

RECURSIVE SortRecordsByTimeStamp(_)
SortRecordsByTimeStamp(items) ==
    IF items = <<>> THEN <<>>
    ELSE InsertSortedRecord(SortRecordsByTimeStamp(SubSeq(items, 1, Len(items) - 1)), items[Len(items)])

MapGroups(grouped) == Flatten([g \in 1..Len(grouped) |-> _map_group(grouped[g])])

NormalizeAll(kept) == [i \in 1..Len(kept) |-> _normalize_row(kept[i])]

map_kraken_ledger(rows) ==
    IF rows = <<>> THEN <<>>
    ELSE SortRecordsByTimeStamp(MapGroups(_group_by_refid(
            NormalizeAll(SelectSeq(rows, LAMBDA r : Truthy(Get(r, "txid")))))))

(***************************************************************************)
(* CSV text: a file is a sequence of lines, a line is split on its         *)
(* delimiter (the lines of the model carry no quoted delimiter).           *)
(***************************************************************************)
RECURSIVE Split(_, _)
Split(line, sep) ==
    IF IndexOf(sep, line) = 0 THEN <<line>>
    ELSE <<SubSeq(line, 1, IndexOf(sep, line) - 1)>>
         \o Split(SubSeq(line, IndexOf(sep, line) + 1, Len(line)), sep)

\* the last column of the header named k
LastColumn(header, k) ==
    CHOOSE i \in 1..Len(header) : header[i] = k /\ \A j \in (i + 1)..Len(header) : header[j] # k

\* dict(zip(header, values)); the lines of the model have one value per column
ZipRow(header, values) ==
    [k \in {header[i] : i \in 1..Len(header)} |-> values[LastColumn(header, k)]]

(***************************************************************************)
(* Coinbase: the account-export normalizer.                                *)
(***************************************************************************)
TRANSACTION_TYPE_MAP ==
    [sell |-> "TRADE", buy |-> "TRADE"] @@ ("reward income" :> "REWARD")
    @@ ("staking income" :> "STAKING_REWARD") @@ ("airdrop" :> "AIRDROP")
    @@ ("deposit" :> "DEPOSIT") @@ ("withdrawal" :> "WITHDRAWAL")

\* the index of the header line ("ID,..."), 0 when there is none
HeaderIndex(lines) ==
    IF \E i \in 1..Len(lines) : StartsWith(Strip(lines[i]), "ID,")
    THEN Least({i \in 1..Len(lines) : StartsWith(Strip(lines[i]), "ID,")})
    ELSE 0

\* [part.strip() for part in stripped.split(",")]
UserParts(line) == Split(Strip(line), ",")

\* parts[2] or None
AccountOfParts(parts) == IF Strip(parts[3]) = "" THEN NoneStr ELSE SomeStr(Strip(parts[3]))

AccountOfHits(lines, hits) ==
    IF hits = {} THEN NoneStr ELSE AccountOfParts(UserParts(lines[Greatest(hits)]))

\* no account id, whatever the lines are
NoAccountId(lines, last) == NoneStr

\* the account id of the last "User," line of three parts among the first `last` lines
AccountId(lines, last) ==
    AccountOfHits(lines, {i \in 1..last : StartsWith(Strip(lines[i]), "User,")
                                          /\ Len(UserParts(lines[i])) >= 3})

\* csv.DictReader over the header line and the non-empty lines under it, keeping
\* the rows with an ID
RowsUnder(header, data) ==
    SelectSeq([i \in 1..Len(data) |-> ZipRow(header, Split(data[i], ","))],
              LAMBDA r : Truthy(Get(r, "ID")))

ExtractAt(lines, at) ==
    IF at = 0 THEN [account_id |-> AccountId(lines, Len(lines)), rows |-> <<>>]
    ELSE [account_id |-> AccountId(lines, at),
          rows |-> RowsUnder(Split(lines[at], ","),
                             SelectSeq(SubSeq(lines, at + 1, Len(lines)), LAMBDA l : l # ""))]

_extract_account_and_rows(lines) == ExtractAt(lines, HeaderIndex(lines))

SideOfLower(lower_type, quantity) ==
    IF Contains(lower_type, "withdraw") THEN "WITHDRAW"
    ELSE IF Contains(lower_type, "deposit") THEN "DEPOSIT"
    ELSE IF Contains(lower_type, "sell") \/ DecNegative(quantity) THEN "SELL"
    ELSE "BUY"

\* _determine_side passing an unrecognised transaction type through in upper case
SideOrType(tx_type, quantity) ==
    IF Lower(tx_type) \in {"buy", "sell", "deposit"} THEN Upper(tx_type)
    ELSE IF DecNegative(quantity) THEN "SELL"
    ELSE Upper(tx_type)

_determine_side(tx_type, quantity) == SideOfLower(Lower(tx_type), quantity)

\* TRANSACTION_TYPE_MAP.get(tx_type.lower(), tx_type.upper())
TypeOfLower(lower_type, upper_type) ==
    IF lower_type \in DOMAIN TRANSACTION_TYPE_MAP THEN TRANSACTION_TYPE_MAP[lower_type]
    ELSE upper_type

_map_transaction_type(tx_type) == TypeOfLower(Lower(tx_type), Upper(tx_type))

\* decimal_to_str(price): the explicit price, else filled_quote / filled_quantity
CoinbasePrice(explicit_price, filled_quantity, filled_quote) ==
    IF ~DecTruthy(explicit_price) /\ DecTruthy(filled_quantity) /\ DecTruthy(filled_quote)
    THEN quotient_to_str(filled_quote, filled_quantity)
    ELSE decimal_to_str(explicit_price)

\* fee_value = abs(fee) if fee else None
FeeValue(fee) == IF DecTruthy(fee) THEN DecAbs(fee) ELSE NoneDec

CoinbaseRecord(account_id, row, tx_id, tx_type, price_currency, quantity, filled_quote, fee_value) ==
    Record("coinbase-" \o tx_id, IF Truthy(account_id) THEN account_id.v ELSE tx_id,
           parse_coinbase_timestamp(GetOr(row, "Timestamp", "")), "COMPLETED",
           format_market(Upper(Strip(GetOr(row, "Asset", ""))), price_currency), "COINBASE",
           _determine_side(tx_type, quantity), _map_transaction_type(tx_type),
           abs_decimal_to_str(DecAbs(quantity)), abs_decimal_to_str(filled_quote),
           CoinbasePrice(parse_decimal(Get(row, "Price at Transaction")), DecAbs(quantity),
                         filled_quote),
           abs_decimal_to_str(fee_value), IF DecTruthy(fee_value) THEN price_currency ELSE "")

CoinbaseOfId(account_id, row, tx_id) ==
    IF tx_id = "" THEN <<>>
    ELSE <<CoinbaseRecord(account_id, row, tx_id, Strip(GetOr(row, "Transaction Type", "")),
                          Upper(Strip(GetOr(row, "Price Currency", ""))),
                          OrZero(parse_decimal(Get(row, "Quantity Transacted"))),
                          DecAbs(OrDec(parse_decimal(Get(row, "Total (inclusive of fees and/or spread)")),
                                       OrZero(parse_decimal(Get(row, "Subtotal"))))),
                          FeeValue(parse_decimal(Get(row, "Fees and/or Spread"))))>>

\* one iteration of the loop of map_coinbase_file: the records it appends
_map_coinbase_row(account_id, row) == CoinbaseOfId(account_id, row, Strip(GetOr(row, "ID", "")))

MapCoinbaseRows(file) ==
    EnsureAll(Flatten([i \in 1..Len(file.rows) |-> _map_coinbase_row(file.account_id, file.rows[i])]))

map_coinbase_file(lines) == MapCoinbaseRows(_extract_account_and_rows(lines))

(***************************************************************************)
(* NBX: the semicolon-separated export.                                    *)
(***************************************************************************)
RECURSIVE StripQuotes(_)
\* value.strip('"')
StripQuotes(s) ==
    IF s # "" /\ Head(s) = "\"" THEN StripQuotes(Tail(s))
    ELSE IF s # "" /\ Char(s, Len(s)) = "\"" THEN StripQuotes(SubSeq(s, 1, Len(s) - 1))
    ELSE s

\* [value.strip().strip('"') for value in cells]
CleanCells(cells) == [j \in 1..Len(cells) |-> StripQuotes(Strip(cells[j]))]

\* normalized[idx], the row being padded with "" up to the header
ValueAt(normalized, idx) == IF idx <= Len(normalized) THEN normalized[idx] ELSE ""

\* {header[idx]: normalized[idx] for idx in range(len(header)) if header[idx]}
NbxRow(header, normalized) ==
    [k \in {header[j] : j \in 1..Len(header)} \ {""} |-> ValueAt(normalized, LastColumn(header, k))]

NbxRowsOf(header, data) == [n \in 1..Len(data) |-> NbxRow(header, CleanCells(Split(data[n], ";")))]

\* any(raw) on the cells of a line
AnyCell(cells) == \E j \in 1..Len(cells) : cells[j] # ""

_read_nbx_rows(lines) ==
    IF lines = <<>> \/ lines[1] = "" THEN <<>>
    ELSE NbxRowsOf(CleanCells(Split(lines[1], ";")),
                   SelectSeq(Tail(lines), LAMBDA l : AnyCell(Split(l, ";"))))

\* side, base and quote of an NBX trade
Legs(side, base_amount, base_currency, quote_amount, quote_currency) ==
    [side |-> side, base_amount |-> base_amount, base_currency |-> base_currency,
     quote_amount |-> quote_amount, quote_currency |-> quote_currency]

NbxLegs(amount_in, currency_in, amount_out, currency_out) ==
    IF is_fiat(currency_in) /\ ~is_fiat(currency_out)
    THEN Legs("SELL", amount_out, currency_out, amount_in, currency_in)
    ELSE IF ~is_fiat(currency_in) /\ is_fiat(currency_out)
    THEN Legs("BUY", amount_in, currency_in, amount_out, currency_out)
    ELSE Legs("BUY", OrDec(amount_in, amount_out), OrStr(currency_in, currency_out),
              IF DecEq(OrDec(amount_in, amount_out), amount_in) THEN amount_out ELSE amount_in,
              OrStr(currency_out, currency_in))

\* notes.replace("/", "-") if notes else format_market(base_currency, quote_currency)
NbxMarket(notes, legs) ==
    IF notes # "" THEN ReplaceChar(notes, "/", "-")
    ELSE format_market(legs.base_currency, legs.quote_currency)

NbxTradeRecord(row, legs) ==
    Record("nbx-" \o GetOr(row, "ID", ""), GetOr(row, "ID", ""),
           parse_iso_timestamp(GetOr(row, "Timestamp", "")), "COMPLETED",
           NbxMarket(GetOrEmpty(row, "Notes"), legs), "NBX", legs.side, "TRADE",
           abs_decimal_to_str(legs.base_amount), abs_decimal_to_str(legs.quote_amount),
           price_to_str(legs.quote_amount, legs.base_amount),
           abs_decimal_to_str(parse_decimal(Get(row, "Fee"))), Upper(GetOrEmpty(row, "Fee-Currency")))

_map_trade(row) ==
    NbxTradeRecord(row, NbxLegs(OrZero(parse_decimal(Get(row, "In"))),
                                Upper(GetOrEmpty(row, "In-Currency")),
                                OrZero(parse_decimal(Get(row, "Out"))),
                                Upper(GetOrEmpty(row, "Out-Currency"))))

_map_deposit_withdraw(row, transaction_type, side) ==
    Record("nbx-" \o GetOr(row, "ID", ""), GetOr(row, "ID", ""),
           parse_iso_timestamp(GetOr(row, "Timestamp", "")), "COMPLETED",
           Upper(OrStr(GetOrEmpty(row, "In-Currency"), GetOrEmpty(row, "Out-Currency"))), "NBX",
           side, transaction_type,
           abs_decimal_to_str(OrZero(OrDec(parse_decimal(Get(row, "In")),
                                           parse_decimal(Get(row, "Out"))))),
           "", "", abs_decimal_to_str(parse_decimal(Get(row, "Fee"))),
           Upper(GetOrEmpty(row, "Fee-Currency")))

NbxByType(row, tx_type) ==
    IF tx_type = "Trade" THEN <<_map_trade(row)>>
    ELSE IF tx_type = "Deposit" THEN <<_map_deposit_withdraw(row, "DEPOSIT", "DEPOSIT")>>
    ELSE IF tx_type = "Withdraw" THEN <<_map_deposit_withdraw(row, "WITHDRAWAL", "WITHDRAW")>>
    ELSE <<>>

\* one iteration of the loop of map_nbx_file: the records it appends
_map_nbx_row(row) == NbxByType(row, Title(Strip(GetOrEmpty(row, "Type"))))

MapNbxRows(rows) == EnsureAll(Flatten([i \in 1..Len(rows) |-> _map_nbx_row(rows[i])]))

map_nbx_file(lines) == MapNbxRows(_read_nbx_rows(lines))

(***************************************************************************)
(* Input files.  Each exchange has a pool of rows (or of CSV lines); an    *)
(* input file is any sequence of pool rows up to the bound.                *)
(***************************************************************************)
\* the sequences of `shorter` and their extensions by one row of the pool
Extend(shorter, pool) == shorter \cup {Append(s, r) : s \in shorter, r \in pool}

RECURSIVE SeqsUpTo(_, _)
\* the sequences over pool of length at most n
SeqsUpTo(pool, n) == IF n = 0 THEN {<<>>} ELSE Extend(SeqsUpTo(pool, n - 1), pool)

FiriTimeA == "Mon Jan 01 2024 10:00:00 GMT+0000 (Coordinated Universal Time)"
FiriTimeB == "Mon Jan 01 2024 11:30:00 GMT+0200 (Coordinated Universal Time)"
IsoTimeC == "2024-01-03T08:00:00Z"

LedgerRow(transaction_id, match_id, action, amount, currency, created_at) ==
    ("Transaction ID" :> transaction_id) @@ ("Match ID" :> match_id) @@ ("Action" :> action)
    @@ ("Amount" :> amount) @@ ("Currency" :> currency) @@ ("Created at" :> created_at)

LedgerPool ==
    { LedgerRow("", "M1", "Match", "0.01", "BTC", FiriTimeA),
      LedgerRow("", "M1", "Match", "-500", "NOK", FiriTimeB),
      LedgerRow("", "M1", "MatchFee", "-1", "NOK", FiriTimeA),
      LedgerRow("", "M1", "Match", "-0.01", "ETH", IsoTimeC),
      LedgerRow("", "M2", "Match", "-2", "btc", ""),
      LedgerRow("", "", "Match", "1", "BTC", FiriTimeA),
      LedgerRow("", "", "StakingReward", "0.5", "ETH", IsoTimeC),
      LedgerRow("", "", "StakingReward", "-0.25", "ETH", FiriTimeA),
      LedgerRow("S1", "", "BankDeposit", "1000", "NOK", FiriTimeB),
      LedgerRow("S1", "", "BankWithdrawal", "-1 000,50", "NOK", IsoTimeC),
      LedgerRow("X1", "", "Bonus", "5", "BTC", FiriTimeA) }

TradeRow(trade, market, price, volume, cost, volume_currency, order_type, executed) ==
    ("Trade" :> trade) @@ ("Market" :> market) @@ ("Price" :> price) @@ ("Volume" :> volume)
    @@ ("Cost" :> cost) @@ ("Volume currency" :> volume_currency) @@ ("Order Type" :> order_type)
    @@ ("Executed" :> executed)

TradePool ==
    { TradeRow("t1", "BTCNOK", "500000", "0.5", "250000", "BTC", "bid", FiriTimeA),
      TradeRow("t2", "BTCNOK", "-4", "-0.5", "-100", "NOK", "ask", FiriTimeB),
      TradeRow("t1", "ethnok", "", "-2", "100", "ETH", "Bid", IsoTimeC),
      TradeRow("t3", "BTCNOK", "0", "1", "100", "NOK", "ask", FiriTimeA),
      TradeRow("", "BTCNOK", "4", "1", "100", "BTC", "bid", FiriTimeA) }

OrderRow(order_id, market, filled, price, filled_currency, order_type, status, created_at) ==
    ("Order ID" :> order_id) @@ ("Market" :> market) @@ ("Filled" :> filled) @@ ("Price" :> price)
    @@ ("Filled currency" :> filled_currency) @@ ("Order Type" :> order_type)
    @@ ("Status" :> status) @@ ("Created at" :> created_at)

OrderPool ==
    { OrderRow("o1", "ETHNOK", "-2", "100.5", "", "Bid", "filled", FiriTimeA),
      OrderRow("o1", "BTCNOK", "0", "-3", "btc", "ask", "Cancelled", FiriTimeB),
      OrderRow("o2", "NOK", "1", "", "", "bid", "", ""),
      OrderRow("", "BTCNOK", "1", "1", "", "bid", "open", FiriTimeA) }

\* a file whose header has none of the distinguishing columns
OtherPool == { ("Id" :> "1") @@ ("Amount" :> "-1") }

\* rows of different headers, and rows with more than one of the distinguishing columns
MixedPool ==
    { LedgerRow("S2", "", "BankDeposit", "1000", "NOK", FiriTimeB),
      TradeRow("t7", "BTCNOK", "500000", "0.5", "250000", "BTC", "bid", FiriTimeA),
      OrderRow("o7", "ETHNOK", "-2", "100.5", "", "Bid", "filled", FiriTimeA),
      LedgerRow("S3", "", "BankWithdrawal", "-20", "NOK", FiriTimeA)
        @@ TradeRow("t8", "ETHNOK", "100", "2", "200", "ETH", "ask", FiriTimeB)
        @@ ("Order ID" :> "o8") @@ ("Filled" :> "2") @@ ("Status" :> "filled"),
      TradeRow("t9", "BTCNOK", "4", "1", "4", "BTC", "bid", FiriTimeA)
        @@ ("Order ID" :> "o9") @@ ("Filled" :> "1") @@ ("Status" :> "filled")
        @@ ("Created at" :> FiriTimeB),
      (" Action " :> "BankDeposit")
        @@ TradeRow("t6", "BTCNOK", "4", "1", "4", "BTC", "bid", FiriTimeA),
      ("Id" :> "1") @@ ("Amount" :> "-1") }

\* Match legs of one group whose sums cancel or are zero
ZeroSumPool ==
    { LedgerRow("", "M3", "Match", "0.5", "BTC", FiriTimeA),
      LedgerRow("", "M3", "Match", "-0.5", "BTC", FiriTimeB),
      LedgerRow("", "M3", "Match", "0", "NOK", FiriTimeB) }

\* rows of the internal actions, a fee row whose match id is in the MatchId column, and
\* an action with blanks around it
InternalPool ==
    { LedgerRow("I1", "", "InternalTransfer", "1", "BTC", FiriTimeA),
      LedgerRow("I2", "", "Stake", "-1", "ETH", FiriTimeB),
      ("MatchId" :> " M5 ") @@ LedgerRow("", "", "MatchFee", "-2", "NOK", FiriTimeA),
      LedgerRow("S4", "", " StakingReward ", "0.5", "ETH", IsoTimeC) }

\* trade rows with no price and no cost, an unreadable volume, no market symbol, and
\* the trade id in the column named trade
TradeEdgePool ==
    { TradeRow("t11", "BTCNOK", "", "0.5", "", "BTC", "ask", FiriTimeB),
      TradeRow("t12", "BTCNOK", "2", "x", "10", "BTC", "bid", FiriTimeA),
      TradeRow("t13", "", "2", "1", "", "", "bid", FiriTimeA),
      TradeRow("t13", "", "2", "1", "1", "", "bid", FiriTimeB),
      ("trade" :> "t14") @@ TradeRow("", "ETHNOK", "0", "1.5", "-30", "eth", "bid", IsoTimeC) }

FiriFiles ==
    SeqsUpTo(LedgerPool, MaxLedgerRows) \cup SeqsUpTo(TradePool, MaxRows)
    \cup SeqsUpTo(OrderPool, MaxRows) \cup SeqsUpTo(OtherPool, MaxRows)
    \cup SeqsUpTo(MixedPool, MaxRows) \cup SeqsUpTo(ZeroSumPool, MaxRows)
    \cup SeqsUpTo(InternalPool, MaxRows) \cup SeqsUpTo(TradeEdgePool, MaxRows)

KrakenRow(txid, refid, time, type, asset, amount, fee) ==
    [txid |-> txid, refid |-> refid, time |-> time, type |-> type, subtype |-> "",
     asset |-> asset, amount |-> amount, fee |-> fee]

KrakenPool ==
    { KrakenRow("T1", "R1", "2024-01-02 09:00:00", "Trade", "eth", "0.5", "0.001"),
      KrakenRow("T2", "R1", "2024-01-01 10:00:00", "trade", "EUR", "-1000", "-2"),
      KrakenRow("T3", "", "2024-01-01 10:00:00.5", "reward", "ETH", "-0.02", "-0.1"),
      KrakenRow("T3", "", "", "Reward", "", "1", ""),
      KrakenRow("T4", "R2", "", "spend", "EUR", "-5", "0"),
      KrakenRow("T5", "R2", "2024-01-03T08:00:00Z", "receive", "BTC", "0.1", "-1"),
      KrakenRow("T6", "R1", "2024-01-01 10:00:00", "transfer", "BTC", "1", ""),
      KrakenRow("", "R1", "2024-01-01 10:00:00", "trade", "BTC", "1", ""),
      KrakenRow("T7", "R3", "2024-01-04 09:00:00", "trade", "BTC", "-0.1", "0"),
      KrakenRow("T8", "R3", "2024-01-04 09:00:00", "trade", "USD", "3000", "1.5"),
      KrakenRow("T9", "R3", "2024-01-04 09:00:01", "trade", "BTC", "0", "") }

KrakenFiles == SeqsUpTo(KrakenPool, MaxRows)

CoinbaseHeader ==
    "ID,Timestamp,Transaction Type,Asset,Quantity Transacted,Price Currency,Price at Transaction,Subtotal,Total (inclusive of fees and/or spread),Fees and/or Spread"

CoinbasePool ==
    { "c1,2024-01-01 10:00:00 UTC,Buy,eth,1.5,eur,,,3000,",
      "c2,2024-01-01T10:00:00Z,Advanced Trade Sell,BTC,-0.5,EUR,-40000,19990,,-10",
      "c1,x,Send,BTC,-1,EUR,0,,,",
      "c3,,Staking Income,ETH,0.1,EUR,2000,-200,-200,0",
      "c4,2024-01-01 10:00:00 UTC,Withdrawal,EUR,-100,EUR,1,100,100,0.00",
      "c5,2024-01-01 12:00:00 UTC,Deposit,EUR,100,EUR,1,100,100,1",
      "c6,2024-01-02 10:00:00 UTC,Buy,BTC,-0.2,EUR,,,100,",
      ",2024-01-01 10:00:00 UTC,Buy,ETH,1,EUR,,,,",
      "" }

\* the lines before the header line
CoinbasePreambles == { <<>>, <<"Transactions", "User,x,ACC123">>, <<"User,x,">> }

\* one metadata line, the header and one buy row of 1.5 ETH at a total of 3000 EUR
ScenarioExport ==
    <<"User,x,ACC123", CoinbaseHeader, "c1,2024-01-01 10:00:00 UTC,buy,ETH,1.5,EUR,,,3000,">>

\* an export with a line of the shape of a data row above the header
PreambleRowExport ==
    <<"c9,2024-01-01 10:00:00 UTC,Buy,ETH,1,EUR,,,10,", "User,x,ACC9", CoinbaseHeader,
      "c5,2024-01-01 12:00:00 UTC,Deposit,EUR,100,EUR,1,100,100,1">>

CoinbaseFiles ==
    {pre \o <<CoinbaseHeader>> \o data : pre \in CoinbasePreambles, data \in SeqsUpTo(CoinbasePool, MaxRows)}
    \cup {<<>>, <<"User,x,ACC123">>, ScenarioExport, PreambleRowExport}

NbxHeader == "ID;Type;In;In-Currency;Out;Out-Currency;Fee;Fee-Currency;Timestamp;Notes"

NbxPool ==
    { "n1;trade;0.5;BTC;250000;NOK;-12,5;nok;2024-01-01T10:00:00Z;BTC/NOK",
      "n2;TRADE;-1000;NOK;-0.01;BTC;;;2024-01-01T12:00:00+02:00;",
      "n1;Deposit;-100;NOK;;;1;NOK;x;",
      "n4;withdraw;;;50;nok;;;;",
      "n5;Trade;;ETH;-2;BTC;;;;",
      "n6;Fee;1;NOK;;;;;;",
      ";;;;;;;;;" }

NbxFiles == {<<NbxHeader>> \o data : data \in SeqsUpTo(NbxPool, MaxRows)} \cup {<<>>}

(***************************************************************************)
(* Texts for parse_decimal: every text of up to MaxChars characters out of *)
(* digits, the two separators, the sign, a blank and a letter, and three   *)
(* longer amounts.                                                         *)
(***************************************************************************)
DecimalChars == {"0", "1", "5", ",", ".", "-", " ", "x"}

RECURSIVE TextsOf(_)
TextsOf(n) == IF n = 0 THEN {""} ELSE {c \o t : c \in DecimalChars, t \in TextsOf(n - 1)}

DecimalTexts == UNION {TextsOf(n) : n \in 0..MaxChars} \cup {"1,000.50", "-1 000,50", "-00.100"}

(***************************************************************************)
(* The mapping engine.  A Python value is its type name t, its text s and  *)
(* a payload d: the entries of a dict, the items of a list, the Decimal of *)
(* a Decimal.  A call of eval or of _normalize_output_value gives an       *)
(* outcome: the value returned, or the type and text of the exception.     *)
(***************************************************************************)
Value(t, s, d) == [t |-> t, s |-> s, d |-> d]

VNone == Value("NoneType", "None", <<>>)
VStr(s) == Value("str", s, <<>>)
VBool(b) == Value("bool", IF b THEN "True" ELSE "False", <<>>)
VInt(n) == Value("int", IntToStr(n), <<>>)
\* a float, s being str(value)
VFloat(text) == Value("float", text, <<>>)
VDecimal(dec) == Value("Decimal", decimal_to_str(dec), dec)
VList(items) == Value("list", "", items)
VDict(entries) == Value("dict", "", entries)
VFunction(name) == Value("function", name, <<>>)
\* an Optional[Decimal] as a Python value
OptDecimal(dec) == IF dec.some THEN VDecimal(dec) ELSE VNone

NoEntries == [key \in {} |-> VNone]
\* a CSV row (column name -> cell text) as a Python dict
RowValue(row) == VDict([key \in DOMAIN row |-> VStr(row[key])])

\* type(value).__name__ as exception messages print it
TypeName(value) == IF value.t = "Decimal" THEN "decimal.Decimal" ELSE value.t

\* bool(value)
Truth(value) ==
    CASE value.t = "NoneType" -> FALSE
      [] value.t = "bool" -> value.s = "True"
      [] value.t = "int" -> value.s # "0"
      [] value.t = "float" -> DecTruthy(DecimalOf(value.s))
      [] value.t = "Decimal" -> value.d.coef # 0
      [] value.t = "str" -> value.s # ""
      [] value.t = "list" -> Len(value.d) > 0
      [] value.t = "dict" -> DOMAIN value.d # {}
      [] value.t = "function" -> TRUE

Returned(value) == [ok |-> TRUE, value |-> value, type |-> "", exc |-> ""]
Raise(type, exc) == [ok |-> FALSE, value |-> VNone, type |-> type, exc |-> exc]

CompositeMessage(kind) ==
    "Mapping expressions must resolve to primitive values; received a " \o kind

\* _normalize_output_value(value): the text of the output cell
_normalize_output_value(value) ==
    IF value.t = "NoneType" THEN Returned("")
    ELSE IF value.t = "bool" THEN Returned(IF value.s = "True" THEN "true" ELSE "false")
    ELSE IF value.t = "Decimal" THEN Returned(decimal_to_str(value.d))
    ELSE IF value.t = "float" THEN Returned(decimal_to_str(DecimalOf(value.s)))
    ELSE IF value.t = "int" THEN Returned(value.s)
    ELSE IF value.t = "dict" THEN Raise("MappingConfigurationError", CompositeMessage("dict"))
    ELSE IF value.t = "list" THEN Raise("MappingConfigurationError", CompositeMessage("list"))
    ELSE IF value.t = "str" THEN Returned(Strip(value.s))
    ELSE Returned("<function " \o value.s \o ">")

(***************************************************************************)
(* eval(expression, _SAFE_GLOBALS, env) on the expressions that mapping    *)
(* configurations are written in:                                          *)
(*     expression ::= operand | operand == operand                         *)
(*     operand    ::= None | True | False | 12 | 'text' | name             *)
(*                  | name['key'] | name(simple) | [] | [simple] | {}      *)
(* Compilation comes first (a SyntaxError whatever the environment), then  *)
(* evaluation left to right.                                               *)
(***************************************************************************)
NameChars == LowerAlpha \o UpperAlpha \o "_"
Keywords == {"None", "True", "False"}

IsName(s) ==
    /\ s # ""
    /\ s \notin Keywords
    /\ IndexOf(Head(s), NameChars) > 0
    /\ \A i \in 1..Len(s) : IndexOf(Char(s, i), NameChars \o Digits) > 0

IsIntLiteral(s) == s # "" /\ AllDigits(s) /\ (Head(s) # "0" \/ s = "0")

IsStrLiteral(s) ==
    /\ Len(s) >= 2
    /\ Head(s) = "'"
    /\ Char(s, Len(s)) = "'"
    /\ CountChar(s, "'") = 2
    /\ CountChar(s, "\\") = 0

IsSimple(s) == s \in Keywords \/ IsIntLiteral(s) \/ IsStrLiteral(s) \/ IsName(s)

\* s without its first n and last m characters
Inner(s, n, m) == SubSeq(s, n + 1, Len(s) - m)

\* name['key']
IsSubscript(s) ==
    /\ EndsWith(s, "]")
    /\ IndexOf("[", s) > 1
    /\ IsName(SubSeq(s, 1, IndexOf("[", s) - 1))
    /\ IsStrLiteral(Inner(s, IndexOf("[", s), 1))

\* name(simple)
IsCall(s) ==
    /\ EndsWith(s, ")")
    /\ IndexOf("(", s) > 1
    /\ IsName(SubSeq(s, 1, IndexOf("(", s) - 1))
    /\ IsSimple(Inner(s, IndexOf("(", s), 1))

\* [] or [simple]
IsList(s) == StartsWith(s, "[") /\ EndsWith(s, "]") /\ (Len(s) = 2 \/ IsSimple(Inner(s, 1, 1)))

IsOperand(s) == IsSimple(s) \/ IsSubscript(s) \/ IsCall(s) \/ IsList(s) \/ s = "{}"

\* position of the first occurrence of p in s, 0 when absent
FindSub(s, p) ==
    IF Contains(s, p)
    THEN CHOOSE i \in 1..(Len(s) - Len(p) + 1) :
            /\ SubSeq(s, i, i + Len(p) - 1) = p
            /\ \A j \in 1..(i - 1) : SubSeq(s, j, j + Len(p) - 1) # p
    ELSE 0

LeftOf(s, at) == SubSeq(s, 1, at - 1)
RightOf(s, at) == SubSeq(s, at + 4, Len(s))

IsComparisonAt(s, at) == at > 0 /\ IsOperand(LeftOf(s, at)) /\ IsOperand(RightOf(s, at))
IsComparison(s) == IsComparisonAt(s, FindSub(s, " == "))

WellFormed(s) == IsOperand(s) \/ IsComparison(s)

\* str(SyntaxError) of compile(expression)
SyntaxMessage(s) ==
    IF CountChar(s, "[") > CountChar(s, "]") THEN "'[' was never closed (<string>, line 1)"
    ELSE IF CountChar(s, "(") > CountChar(s, ")") THEN "'(' was never closed (<string>, line 1)"
    ELSE "invalid syntax (<string>, line 1)"

\* a name: the environment's value or NameError
Lookup(name, env) ==
    IF name \in DOMAIN env THEN Returned(env[name])
    ELSE Raise("NameError", "name '" \o name \o "' is not defined")

EvalSimple(s, env) ==
    IF s = "None" THEN Returned(VNone)
    ELSE IF s = "True" THEN Returned(VBool(TRUE))
    ELSE IF s = "False" THEN Returned(VBool(FALSE))
    ELSE IF IsIntLiteral(s) THEN Returned(Value("int", s, <<>>))
    ELSE IF IsStrLiteral(s) THEN Returned(VStr(Inner(s, 1, 1)))
    ELSE Lookup(s, env)

\* target[key] for a str key
GetItem(target, key) ==
    IF target.t = "dict"
    THEN IF key \in DOMAIN target.d THEN Returned(target.d[key])
         ELSE Raise("KeyError", "'" \o key \o "'")
    ELSE IF target.t = "str"
    THEN Raise("TypeError", "string indices must be integers, not 'str'")
    ELSE IF target.t = "list"
    THEN Raise("TypeError", "list indices must be integers or slices, not str")
    ELSE Raise("TypeError", "'" \o TypeName(target) \o "' object is not subscriptable")

SubscriptOf(target, key) == IF target.ok THEN GetItem(target.value, key) ELSE target

EvalSubscript(s, at, env) == SubscriptOf(Lookup(LeftOf(s, at), env), Inner(s, at + 1, 2))

\* function(argument) for the helpers of _BASE_ENV the model evaluates
Apply(function, argument) ==
    CASE function.s = "parse_decimal" ->
            IF argument.t = "NoneType" THEN Returned(VNone)
            ELSE IF argument.t = "str"
            THEN Returned(OptDecimal(parse_decimal(SomeStr(argument.s))))
            ELSE Raise("AttributeError",
                       "'" \o TypeName(argument) \o "' object has no attribute 'strip'")
      [] function.s = "Decimal" /\ argument.t = "str" ->
            IF DecimalOf(Strip(argument.s)).some
            THEN Returned(VDecimal(DecimalOf(Strip(argument.s))))
            ELSE Raise("InvalidOperation", "[<class 'decimal.ConversionSyntax'>]")
      [] function.s = "decimal_to_str" /\ argument.t = "NoneType" -> Returned(VStr(""))
      [] function.s = "decimal_to_str" /\ argument.t = "Decimal" ->
            Returned(VStr(decimal_to_str(argument.d)))
      [] function.s = "decimal_to_str" /\ argument.t = "int" -> Returned(VStr(argument.s))
      [] function.s = "decimal_to_str" /\ argument.t = "str" ->
            Raise("ValueError", "Unknown format code 'f' for object of type 'str'")

CallOf(function, argument) ==
    IF ~function.ok THEN function
    ELSE IF ~argument.ok THEN argument
    ELSE IF function.value.t # "function"
    THEN Raise("TypeError", "'" \o TypeName(function.value) \o "' object is not callable")
    ELSE Apply(function.value, argument.value)

EvalCall(s, at, env) == CallOf(Lookup(LeftOf(s, at), env), EvalSimple(Inner(s, at, 1), env))

ListOf(item) == IF item.ok THEN Returned(VList(<<item.value>>)) ELSE item

EvalList(s, env) ==
    IF Len(s) = 2 THEN Returned(VList(<<>>)) ELSE ListOf(EvalSimple(Inner(s, 1, 1), env))

EvalOperand(s, env) ==
    IF IsSimple(s) THEN EvalSimple(s, env)
    ELSE IF IsSubscript(s) THEN EvalSubscript(s, IndexOf("[", s), env)
    ELSE IF IsCall(s) THEN EvalCall(s, IndexOf("(", s), env)
    ELSE IF s = "{}" THEN Returned(VDict(NoEntries))
    ELSE EvalList(s, env)

\* a == b for None, str, bool and int operands
Equal(a, b) ==
    CASE a.t = "NoneType" \/ b.t = "NoneType" -> a.t = b.t
      [] a.t = "str" \/ b.t = "str" -> a.t = b.t /\ a.s = b.s
      [] a.t \in {"bool", "int"} /\ b.t \in {"bool", "int"} ->
            (IF a.t = "bool" THEN (IF a.s = "True" THEN 1 ELSE 0) ELSE DigitsValue(a.s))
            = (IF b.t = "bool" THEN (IF b.s = "True" THEN 1 ELSE 0) ELSE DigitsValue(b.s))

ComparisonOf(left, right) ==
    IF ~left.ok THEN left
    ELSE IF ~right.ok THEN right
    ELSE Returned(VBool(Equal(left.value, right.value)))

EvalComparison(s, at, env) ==
    ComparisonOf(EvalOperand(LeftOf(s, at), env), EvalOperand(RightOf(s, at), env))

eval(expression, env) ==
    IF ~WellFormed(expression) THEN Raise("SyntaxError", SyntaxMessage(expression))
    ELSE IF IsOperand(expression) THEN EvalOperand(expression, env)
    ELSE EvalComparison(expression, FindSub(expression, " == "), env)

\* f"row {row_index}" if row_index is not None else "row"
Location(row_index) == IF row_index.some THEN "row " \o row_index.v.s ELSE "row"

ErrorMessage(expression, label, location, exc) ==
    "Error evaluating expression '" \o expression \o "' for " \o label \o " (" \o location
    \o "): " \o exc

\* _evaluate_expression without its except branch: the exception of eval escapes as it is
Unwrapped(result, expression, label, row_index) ==
    [ok |-> result.ok, value |-> result.value, type |-> result.type, exc |-> result.exc,
     cause |-> result.type]

\* the except branch of _evaluate_expression; cause keeps the type of the exception wrapped
Wrapped(result, expression, label, row_index) ==
    IF result.ok
    THEN [ok |-> TRUE, value |-> result.value, type |-> "", exc |-> "", cause |-> ""]
    ELSE [ok |-> FALSE, value |-> VNone, type |-> "MappingConfigurationError",
          exc |-> ErrorMessage(expression, label, Location(row_index), result.exc),
          cause |-> result.type]

_evaluate_expression(expression, env, label, row_index) ==
    Wrapped(eval(expression, env), expression, label, row_index)

\* the Python object behind each name of _BASE_ENV
_BASE_ENV ==
    [name \in {"Decimal", "decimal", "decimal_to_str", "abs_decimal_to_str", "format_market",
               "parse_coinbase_timestamp", "parse_iso_timestamp", "parse_firi_timestamp",
               "parse_kraken_timestamp", "is_fiat", "coinbase_determine_side",
               "coinbase_transaction_type", "coinbase_compute_price", "coinbase_fee_currency",
               "nbx_trade_breakdown", "abs", "max", "min", "round", "str", "len"} |->
        VFunction(IF name = "decimal" THEN "parse_decimal" ELSE name)]

\* env[name] = value
Bind(env, name, value) == (name :> value) @@ env

IndexNames(env, context) ==
    IF "row_index" \in DOMAIN context
    THEN Bind(Bind(env, "row_index", context["row_index"]), "row_number", context["row_index"])
    ELSE env

\* the dict the module global _BASE_ENV names, as it is now
VARIABLE base_env

\* env = dict(_BASE_ENV): a new dict with the entries _BASE_ENV has at the call
_build_environment(row, context) ==
    IndexNames(Bind(Bind(Bind(base_env, "row", RowValue(row)), "context", VDict(context)),
                    "config", GetOr(context, "config", VNone)),
               context)

\* context.get("row_index")
RowIndexOf(context) ==
    IF "row_index" \in DOMAIN context THEN [some |-> TRUE, v |-> context["row_index"]]
    ELSE [some |-> FALSE, v |-> VNone]

(***************************************************************************)
(* apply_row_mapping.  A frame is the call in progress: its environment,   *)
(* the expressions evaluated so far (log), the columns stored so far       *)
(* (record) and how the call ends (kind); a raised frame keeps the         *)
(* exception, the label it arose under and the expression it arose from.   *)
(***************************************************************************)
Frame(env) ==
    [env |-> env, log |-> <<>>, kind |-> "running", record |-> <<>>, type |-> "", exc |-> "",
     at |-> "", source |-> ""]

\* what the log keeps of one evaluation
Entry(label, expression, result) ==
    [label |-> label, expression |-> expression, ok |-> result.ok,
     truthy |-> result.ok /\ Truth(result.value), type |-> result.value.t,
     text |-> result.value.s, cause |-> result.cause]

Logged(frame, label, expression, result) ==
    [frame EXCEPT !.log = Append(@, Entry(label, expression, result))]

\* the exception leaves the call: the record built so far is lost
Raised(frame, label, expression, result) ==
    [frame EXCEPT !.kind = "raised", !.type = result.type, !.exc = result.exc, !.at = label,
                  !.source = expression, !.record = <<>>]

\* a precompute entry evaluated but not bound into the environment
PrecomputeUnbound(frame, name, expr, result) ==
    IF result.ok THEN Logged(frame, "precompute:" \o name, expr, result)
    ELSE Raised(Logged(frame, "precompute:" \o name, expr, result), "precompute:" \o name, expr,
                result)

PrecomputeStep(frame, name, expr, result) ==
    IF result.ok
    THEN [Logged(frame, "precompute:" \o name, expr, result) EXCEPT
            !.env = Bind(@, name, result.value)]
    ELSE Raised(Logged(frame, "precompute:" \o name, expr, result), "precompute:" \o name, expr,
                result)

PrecomputeEntry(frame, name, expr, row_index) ==
    PrecomputeStep(frame, name, expr,
                   _evaluate_expression(expr, frame.env, "precompute:" \o name, row_index))

RECURSIVE RunPrecompute(_, _, _)
\* for name, expr in precompute.items(): env[name] = _evaluate_expression(...)
RunPrecompute(entries, frame, row_index) ==
    IF entries = <<>> \/ frame.kind # "running" THEN frame
    ELSE RunPrecompute(Tail(entries),
                       PrecomputeEntry(frame, Head(entries)[1], Head(entries)[2], row_index),
                       row_index)

\* a skip_when predicate evaluated but its value not acted on
SkipIgnored(frame, predicate, result) ==
    IF ~result.ok
    THEN Raised(Logged(frame, "skip_when", predicate, result), "skip_when", predicate, result)
    ELSE Logged(frame, "skip_when", predicate, result)

SkipStep(frame, predicate, result) ==
    IF ~result.ok
    THEN Raised(Logged(frame, "skip_when", predicate, result), "skip_when", predicate, result)
    ELSE IF Truth(result.value)
    THEN [Logged(frame, "skip_when", predicate, result) EXCEPT !.kind = "absent"]
    ELSE Logged(frame, "skip_when", predicate, result)

RECURSIVE RunSkipWhen(_, _, _)
\* for predicate in skip_when: if _evaluate_expression(...): return None
RunSkipWhen(predicates, frame, row_index) ==
    IF predicates = <<>> \/ frame.kind # "running" THEN frame
    ELSE RunSkipWhen(Tail(predicates),
                     SkipStep(frame, Head(predicates),
                              _evaluate_expression(Head(predicates), frame.env, "skip_when",
                                                   row_index)),
                     row_index)

\* result[column] = _normalize_output_value(value)
StoreColumn(frame, column, expression, normalized) ==
    IF normalized.ok THEN [frame EXCEPT !.record = Append(@, <<column, normalized.value>>)]
    ELSE Raised(frame, "column:" \o column, expression, normalized)

MappedColumn(frame, column, expression, result) ==
    IF ~result.ok
    THEN Raised(Logged(frame, "column:" \o column, expression, result), "column:" \o column,
                expression, result)
    ELSE StoreColumn(Logged(frame, "column:" \o column, expression, result), column, expression,
                     _normalize_output_value(result.value))

ColumnStep(frame, column, mapping, defaults, row_index) ==
    IF column \in DOMAIN mapping
    THEN MappedColumn(frame, column, mapping[column],
                      _evaluate_expression(mapping[column], frame.env, "column:" \o column,
                                           row_index))
    ELSE StoreColumn(frame, column, "",
                     _normalize_output_value(GetOr(defaults, column, VStr(""))))

RECURSIVE RunColumns(_, _, _, _, _)
\* for column in OUTPUT_HEADERS: ...; return result
RunColumns(columns, frame, mapping, defaults, row_index) ==
    IF frame.kind # "running" THEN frame
    ELSE IF columns = <<>> THEN [frame EXCEPT !.kind = "record"]
    ELSE RunColumns(Tail(columns), ColumnStep(frame, Head(columns), mapping, defaults, row_index),
                    mapping, defaults, row_index)

\* file_config.get(key) or {}
ConfigOr(file_config, key, empty) ==
    IF key \in DOMAIN file_config THEN file_config[key] ELSE empty

NoMapping == [column \in {} |-> ""]

\* what the caller sees of the finished call (the environment dies with the call)
Outcome(frame) ==
    [kind |-> frame.kind, record |-> frame.record, type |-> frame.type, exc |-> frame.exc,
     at |-> frame.at, source |-> frame.source, log |-> frame.log]

ApplyWith(env, file_config, row_index) ==
    Outcome(RunColumns(OUTPUT_HEADERS,
                       RunSkipWhen(ConfigOr(file_config, "skip_when", <<>>),
                                   RunPrecompute(ConfigOr(file_config, "precompute", <<>>),
                                                 Frame(env), row_index),
                                   row_index),
                       ConfigOr(file_config, "mapping", NoMapping),
                       ConfigOr(file_config, "defaults", NoEntries), row_index))

apply_row_mapping(row, file_config, context) ==
    ApplyWith(_build_environment(row, context), file_config, RowIndexOf(context))

\* the dict env of the same call when the call is over (bound in the precompute loop only)
EnvironmentWith(env, file_config, row_index) ==
    RunPrecompute(ConfigOr(file_config, "precompute", <<>>), Frame(env), row_index).env

EnvironmentOf(row, file_config, context) ==
    EnvironmentWith(_build_environment(row, context), file_config, RowIndexOf(context))

\* env is _BASE_ENV itself, not a copy: what the call binds stays in _BASE_ENV
SharedEnvironment(shared, env) == env

\* _BASE_ENV after a call whose environment ended as env: env is a copy made by
\* dict(_BASE_ENV), so nothing written to env reaches the dict _BASE_ENV names
BaseEnvAfter(shared, env) == shared

(***************************************************************************)
(* Row-mapped files: the rows and the file configurations (precompute in   *)
(* declaration order, skip_when, mapping, defaults) the engine is run on.  *)
(***************************************************************************)
EngineRowPool ==
    { ("Id" :> " r1 ") @@ ("Status" :> "Cancelled") @@ ("Amount" :> "-1.50"),
      ("Id" :> "r2") @@ ("Amount" :> "2") }

EngineFiles == SeqsUpTo(EngineRowPool, MaxRows)

PrecomputePool ==
    { <<>>,
      << <<"a", "row['Amount']">>, <<"b", "decimal(a)">> >>,
      << <<"b", "a">>, <<"a", "row['Amount']">> >>,
      << <<"a", "row['Status']">>, <<"b", "a">> >>,
      << <<"row", "'x'">>, <<"b", "row_index">> >> }

SkipWhenPool ==
    { <<>>,
      <<"row['Id'] == ' r1 '">>,
      <<"False", "row['Amount'] == '2'">>,
      <<"row['Amount'] == '-1.50'", "row['Missing']">>,
      <<"missing_helper(a)", "True">>,
      <<"b">> }

MappingPool ==
    { NoMapping,
      ("Id" :> "row['Id']") @@ ("FilledQuantity" :> "decimal_to_str(b)") @@ ("Side" :> "'BUY'")
        @@ ("Status" :> "row['Amount'] == '2'") @@ ("Fee" :> "None") @@ ("FilledQuote" :> "b")
        @@ ("Note" :> "row["),
      ("Id" :> "row_index") @@ ("FilledQuote" :> "b") @@ ("Fee" :> "missing_helper(a)"),
      ("Id" :> "row") @@ ("Fee" :> "b"),
      ("ExchangeId" :> "row[") @@ ("Id" :> "a"),
      ("Market" :> "[a]") @@ ("Id" :> "context['source']") }

DefaultsPool ==
    { NoEntries,
      ("Exchange" :> VStr(" NBX ")) @@ ("Status" :> VStr("COMPLETED")) @@ ("Fee" :> VFloat("2.0"))
        @@ ("Id" :> VInt(7)) @@ ("FeeCurrency" :> VNone) @@ ("Side" :> VBool(TRUE)),
      ("FeeCurrency" :> VList(<<VInt(1), VInt(2)>>)) @@ ("Id" :> VStr("x")) }

RowConfig(precompute, skip_when, mapping, defaults) ==
    [mode |-> "row", precompute |-> precompute, skip_when |-> skip_when, mapping |-> mapping,
     defaults |-> defaults]

RowConfigs ==
    {RowConfig(p, s, m, d) : p \in PrecomputePool, s \in SkipWhenPool, m \in MappingPool,
                             d \in DefaultsPool}

FileConfig(handler) == [mode |-> "file", handler |-> handler]

\* the context process_file builds for a file found in the directory `source`
ContextOf(source) ==
    ("config" :> VDict("sources" :> VDict(NoEntries))) @@ ("source" :> VStr(source))

\* the context process_file builds for a file of source "nbx"
Context == ContextOf("nbx")

\* row_context = dict(context); row_context["row_index"] = idx
RowContext(context, idx) == ("row_index" :> VInt(idx)) @@ context

\* the caller's context after the injection: row_context is a copy made by
\* dict(context), so the row index does not reach the caller's dict
ContextAfter(context, row_context) == context

\* a file configuration whose FilledPrice is decimal_to_str(decimal(row['Amount']))
DecimalConfig ==
    RowConfig(<< <<"a", "row['Amount']">>, <<"b", "decimal(a)">> >>, <<>>,
              "FilledPrice" :> "decimal_to_str(b)", NoEntries)

\* the result of one apply_row_mapping call as the caller tests it
NoCall == [kind |-> "none", record |-> <<>>, type |-> "", exc |-> "", at |-> "", source |-> "",
           log |-> <<>>]

\* no exception on its way out of process_file
NoFailure == [type |-> "", exc |-> ""]
Failure(type, exc) == [type |-> type, exc |-> exc]

\* mode = (file_cfg.get("mode") or "row").lower()
ModeOf(cfg) == Lower(OrStr(GetOrEmpty(cfg, "mode"), "row"))

(***************************************************************************)
(* The state.  Of the file in hand: its configuration and rows (file_cfg,  *)
(* input), the context process_file built for it (context), the rows       *)
(* mapped so far (mapped), and for a row-mapped file the number of rows    *)
(* gone through (idx) and the result of the last apply_row_mapping call    *)
(* (converted).  pc is "start" before a file is picked up, "loaded" while  *)
(* it is mapped, then "done", or "raised" when an exception is on its way  *)
(* out of process_file (failure).  Of the run of main: the files found     *)
(* (csv_files), the --dry-run flag, the number of files the loop has       *)
(* taken (position), the files process_file was called with (calls), the   *)
(* output files written (written) and the lines printed to stderr.         *)
(* base_env, declared with the engine, is the module global _BASE_ENV.     *)
(***************************************************************************)
VARIABLES file_cfg, input, context, idx, converted, mapped, pc, failure,
          csv_files, dry_run, position, calls, written, stderr

file_vars == <<file_cfg, input, context, idx, converted, mapped, pc, failure, base_env>>
main_vars == <<csv_files, dry_run, position, calls, written, stderr>>
vars == <<file_cfg, input, context, idx, converted, mapped, pc, failure, base_env,
          csv_files, dry_run, position, calls, written, stderr>>

\* nothing in hand, nothing called, written or printed yet
AtRest ==
    /\ file_cfg = [mode |-> "skip"]
    /\ input = <<>>
    /\ context = NoEntries
    /\ idx = 0
    /\ converted = NoCall
    /\ mapped = <<>>
    /\ pc = "start"
    /\ failure = NoFailure
    /\ base_env = _BASE_ENV
    /\ position = 0
    /\ calls = <<>>
    /\ written = <<>>
    /\ stderr = <<>>

Init ==
    /\ AtRest
    /\ csv_files = <<>>
    /\ dry_run = FALSE

\* process_file up to the loaded rows
Load(cfg, rows) ==
    /\ file_cfg' = cfg
    /\ input' = rows
    /\ context' = Context
    /\ pc' = "loaded"
    /\ UNCHANGED <<idx, converted, mapped, failure, base_env>>
    /\ UNCHANGED main_vars

\* one action for each kind of file
LoadFiriFile == pc = "start" /\ \E rows \in FiriFiles : Load(FileConfig("firi"), rows)
LoadKrakenLedger == pc = "start" /\ \E rows \in KrakenFiles : Load(FileConfig("kraken"), rows)
LoadCoinbaseFile == pc = "start" /\ \E lines \in CoinbaseFiles : Load(FileConfig("coinbase"), lines)
LoadNbxFile == pc = "start" /\ \E lines \in NbxFiles : Load(FileConfig("nbx"), lines)
LoadRowMappedFile ==
    pc = "start" /\ \E cfg \in RowConfigs, rows \in EngineFiles : Load(cfg, rows)

Handled(handler, records) ==
    /\ pc = "loaded"
    /\ ModeOf(file_cfg) = "file"
    /\ "handler" \in DOMAIN file_cfg
    /\ file_cfg.handler = handler
    /\ mapped' = records
    /\ pc' = "done"
    /\ UNCHANGED <<file_cfg, input, context, idx, converted, failure, base_env>>
    /\ UNCHANGED main_vars

\* map_firi_file(_file_path, rows, _context)
MapFiriFile == Handled("firi", map_firi_file(input))
\* map_kraken_ledger(_file_path, rows, _context)
MapKrakenLedger == Handled("kraken", map_kraken_ledger(input))
\* map_coinbase_file(file_path, _rows, _context)
MapCoinbaseFile == Handled("coinbase", map_coinbase_file(input))
\* map_nbx_file(file_path, _rows, _context)
MapNbxFile == Handled("nbx", map_nbx_file(input))

\* one turn of the loop of _process_with_row_mapping
ApplyRowMapping ==
    /\ pc = "loaded"
    /\ ModeOf(file_cfg) = "row"
    /\ idx < Len(input)
    /\ idx' = idx + 1
    /\ converted' = apply_row_mapping(input[idx'], file_cfg, RowContext(context, idx'))
    /\ mapped' = IF converted'.kind = "record" THEN Append(mapped, converted'.record) ELSE mapped
    /\ pc' = IF converted'.kind = "raised" THEN "raised" ELSE pc
    /\ failure' = IF converted'.kind = "raised" THEN Failure(converted'.type, converted'.exc)
                  ELSE failure
    /\ context' = ContextAfter(context, RowContext(context, idx'))
    /\ base_env' = BaseEnvAfter(base_env,
                                EnvironmentOf(input[idx'], file_cfg, RowContext(context, idx')))
    /\ UNCHANGED <<file_cfg, input>>
    /\ UNCHANGED main_vars

\* the loop of _process_with_row_mapping is over: return mapped
ReturnMapped ==
    /\ pc = "loaded"
    /\ ModeOf(file_cfg) = "row"
    /\ idx = Len(input)
    /\ pc' = "done"
    /\ UNCHANGED <<file_cfg, input, context, idx, converted, mapped, failure, base_env>>
    /\ UNCHANGED main_vars

Next ==
    \/ LoadFiriFile
    \/ LoadKrakenLedger
    \/ LoadCoinbaseFile
    \/ LoadNbxFile
    \/ LoadRowMappedFile
    \/ MapFiriFile
    \/ MapKrakenLedger
    \/ MapCoinbaseFile
    \/ MapNbxFile
    \/ ApplyRowMapping
    \/ ReturnMapped

Spec == Init /\ [][Next]_vars

\* the Firi normalizer alone, applied to each file of FiriFiles
FiriNext ==
    \/ LoadFiriFile
    \/ MapFiriFile

FiriSpec == Init /\ [][FiriNext]_vars

\* the Kraken normalizer alone, applied to each file of KrakenFiles
KrakenNext ==
    \/ LoadKrakenLedger
    \/ MapKrakenLedger

KrakenSpec == Init /\ [][KrakenNext]_vars

\* the two normalizers that end with a sort by timeStamp
LedgerNext ==
    \/ LoadFiriFile
    \/ LoadKrakenLedger
    \/ MapFiriFile
    \/ MapKrakenLedger

LedgerSpec == Init /\ [][LedgerNext]_vars

\* the Coinbase normalizer alone, applied to each export of CoinbaseFiles
CoinbaseNext ==
    \/ LoadCoinbaseFile
    \/ MapCoinbaseFile

CoinbaseSpec == Init /\ [][CoinbaseNext]_vars

\* the four normalizers, each applied to the files of its exchange
NormalizerNext ==
    \/ LoadFiriFile
    \/ LoadKrakenLedger
    \/ LoadCoinbaseFile
    \/ LoadNbxFile
    \/ MapFiriFile
    \/ MapKrakenLedger
    \/ MapCoinbaseFile
    \/ MapNbxFile

NormalizerSpec == Init /\ [][NormalizerNext]_vars

\* the mapping engine alone, applied to each configuration and file of rows
EngineNext ==
    \/ LoadRowMappedFile
    \/ ApplyRowMapping
    \/ ReturnMapped

EngineSpec == Init /\ [][EngineNext]_vars

\* a file of one row whose Amount is a text of DecimalTexts
LoadDecimalFile ==
    pc = "start" /\ \E text \in DecimalTexts : Load(DecimalConfig, <<"Amount" :> text>>)

\* parse_decimal and decimal_to_str applied to each text of DecimalTexts
DecimalNext ==
    \/ LoadDecimalFile
    \/ ApplyRowMapping
    \/ ReturnMapped

DecimalSpec == Init /\ [][DecimalNext]_vars

(***************************************************************************)
(* main: the loop over the files found, process_file around the mapping    *)
(* of one file.  An input file is the directory it was found in (source),  *)
(* its name without the extension (stem), the file configuration           *)
(* _resolve_file_config gives for it (empty when none matches) and the     *)
(* rows read_csv_rows reads from it.                                       *)
(***************************************************************************)
InputFile(source, stem, cfg, rows) ==
    [source |-> source, stem |-> stem, file_cfg |-> cfg, rows |-> rows]

\* input_file.name and out_name = f"{input_file.stem}_mapped.csv"
FileName(file) == file.stem \o ".csv"
OutName(file) == file.stem \o "_mapped.csv"

NoFileConfig == [key \in {} |-> ""]

ROW_LOADER_REGISTRY == {"coinbase_transactions", "nbx_semicolon"}
\* the keys firi_transactions and kraken_ledger, as FileConfig names the handlers
FILE_HANDLER_REGISTRY == {"firi", "kraken"}

RECURSIVE Join(_, _)
\* sep.join(items)
Join(items, sep) ==
    IF items = <<>> THEN ""
    ELSE IF Len(items) = 1 THEN items[1]
    ELSE items[1] \o sep \o Join(Tail(items), sep)

\* the exception of _load_rows_for_file, NoFailure when the rows are read
_load_rows_for_file(file, cfg) ==
    IF GetOrEmpty(cfg, "loader") # "" /\ cfg.loader \notin ROW_LOADER_REGISTRY
    THEN Failure("ValueError",
                 "Unknown loader '" \o cfg.loader \o "' for " \o FileName(file))
    ELSE NoFailure

MissingColumns(expected, available) ==
    SelectSeq(expected, LAMBDA column : column \notin available)

\* the exception of _validate_expected_columns, NoFailure when it returns
_validate_expected_columns(rows, cfg, name) ==
    IF ConfigOr(cfg, "expected_columns", <<>>) = <<>> THEN NoFailure
    ELSE IF rows = <<>>
    THEN IF ConfigOr(cfg, "require_rows", FALSE)
         THEN Failure("ValueError", name \o ": no rows found but columns were expected")
         ELSE NoFailure
    ELSE IF MissingColumns(cfg.expected_columns,
                           {Strip(key) : key \in {k \in DOMAIN rows[1] : k # ""}}) # <<>>
    THEN Failure("ValueError",
                 name \o ": missing required columns: "
                 \o Join(MissingColumns(cfg.expected_columns,
                                        {Strip(key) : key \in {k \in DOMAIN rows[1] : k # ""}}),
                         ", "))
    ELSE NoFailure

\* process_file returns 0 without loading the file; line is what it prints to stderr
SkipFile(line) ==
    /\ pc' = "start"
    /\ stderr' = IF line = "" THEN stderr ELSE Append(stderr, line)
    /\ UNCHANGED <<file_cfg, input, context, idx, converted, mapped, failure>>

\* an exception leaves process_file before a row is mapped
FailFile(file, raised) ==
    /\ file_cfg' = file.file_cfg
    /\ input' = file.rows
    /\ context' = ContextOf(Lower(file.source))
    /\ idx' = 0
    /\ converted' = NoCall
    /\ mapped' = <<>>
    /\ pc' = "raised"
    /\ failure' = raised
    /\ UNCHANGED stderr

\* the rows are loaded and validated: on to _process_with_row_mapping or
\* _process_with_file_handler, each with locals of its own
TakeFile(file) ==
    /\ file_cfg' = file.file_cfg
    /\ input' = file.rows
    /\ context' = ContextOf(Lower(file.source))
    /\ idx' = 0
    /\ converted' = NoCall
    /\ mapped' = <<>>
    /\ pc' = "loaded"
    /\ failure' = NoFailure
    /\ UNCHANGED stderr

\* process_file(input_file, ...) up to the choice of the mode
process_file(file) ==
    IF DOMAIN file.file_cfg = {}
    THEN SkipFile("No mapping config found for " \o FileName(file) \o " in source '"
                  \o Lower(file.source) \o "'; skipping")
    ELSE IF ModeOf(file.file_cfg) = "skip" THEN SkipFile("")
    ELSE IF _load_rows_for_file(file, file.file_cfg) # NoFailure
    THEN FailFile(file, _load_rows_for_file(file, file.file_cfg))
    ELSE IF _validate_expected_columns(file.rows, file.file_cfg, FileName(file)) # NoFailure
    THEN FailFile(file, _validate_expected_columns(file.rows, file.file_cfg, FileName(file)))
    ELSE IF ModeOf(file.file_cfg) \notin {"row", "file"}
    THEN FailFile(file, Failure("ValueError",
                                "Unsupported mapping mode '" \o ModeOf(file.file_cfg)
                                \o "' for " \o FileName(file)))
    ELSE TakeFile(file)

\* for input_file in csv_files: try: process_file(input_file, ...)
ProcessFile ==
    /\ pc = "start"
    /\ position < Len(csv_files)
    /\ position' = position + 1
    /\ calls' = Append(calls, FileName(csv_files[position']))
    /\ process_file(csv_files[position'])
    /\ UNCHANGED <<csv_files, dry_run, written, base_env>>

\* the ValueError of _process_with_file_handler
HandlerFailure(cfg, name) ==
    IF GetOrEmpty(cfg, "handler") = ""
    THEN Failure("ValueError",
                 "File-level mapping for " \o name \o " requires a handler property")
    ELSE Failure("ValueError", "Unknown handler '" \o cfg.handler \o "' for " \o name)

\* _process_with_file_handler finds no handler to call
RefuseHandler ==
    /\ pc = "loaded"
    /\ ModeOf(file_cfg) = "file"
    /\ GetOrEmpty(file_cfg, "handler") \notin FILE_HANDLER_REGISTRY
    /\ pc' = "raised"
    /\ failure' = HandlerFailure(file_cfg, FileName(csv_files[position]))
    /\ UNCHANGED <<file_cfg, input, context, idx, converted, mapped, base_env>>
    /\ UNCHANGED main_vars

\* (row.get(key) or "") on a mapped row
FieldOr(rec, key, default) == IF HasKey(rec, key) THEN Field(rec, key) ELSE default

\* row[key] = value on a mapped row
SetField(rec, key, value) ==
    IF HasKey(rec, key)
    THEN [i \in 1..Len(rec) |-> IF rec[i][1] = key THEN <<key, value>> ELSE rec[i]]
    ELSE Append(rec, <<key, value>>)

_filter_transaction_types(rows, cfg) ==
    IF ConfigOr(cfg, "ignore_transaction_types", <<>>) = <<>> THEN rows
    ELSE SelectSeq(rows,
                   LAMBDA row :
                       Upper(FieldOr(row, "TransactionType", ""))
                           \notin {Upper(cfg.ignore_transaction_types[i]) :
                                      i \in 1..Len(cfg.ignore_transaction_types)})

\* int(text) of a configuration scalar
IntOf(text) ==
    IF text # "" /\ AllDigits(text) THEN [ok |-> TRUE, v |-> DigitsValue(text)]
    ELSE IF Len(text) > 1 /\ Head(text) = "-" /\ AllDigits(Tail(text))
    THEN [ok |-> TRUE, v |-> 0 - DigitsValue(Tail(text))]
    ELSE [ok |-> FALSE, v |-> 0]

\* f"{prefix}-{idx:0{padding}d}" when padding > 0, f"{prefix}-{idx}" otherwise
SequenceId(prefix, number, padding) ==
    IF padding > 0
    THEN prefix \o "-" \o Zeros(padding - Len(IntToStr(number))) \o IntToStr(number)
    ELSE prefix \o "-" \o IntToStr(number)

_apply_id_sequence(rows, prefix, padding) ==
    [i \in 1..Len(rows) |-> SetField(rows[i], "Id", SequenceId(prefix, i, padding))]

\* writer.writerow({key: r.get(key, "") for key in OUTPUT_HEADERS})
CsvRow(r) ==
    [i \in 1..Len(OUTPUT_HEADERS) |-> <<OUTPUT_HEADERS[i], FieldOr(r, OUTPUT_HEADERS[i], "")>>]

\* write_mapped_file(rows, output_path): no file for no rows
write_mapped_file(rows, output_path) ==
    IF rows = <<>> THEN written
    ELSE Append(written,
                [turn |-> position, name |-> output_path,
                 rows |-> [i \in 1..Len(rows) |-> CsvRow(rows[i])]])

\* the end of process_file: the rows are written unless --dry-run
Emit(rows) ==
    /\ written' = IF dry_run THEN written
                  ELSE write_mapped_file(rows, OutName(csv_files[position]))
    /\ pc' = "start"
    /\ UNCHANGED failure

\* int(file_cfg.get("id_sequence_padding", 6)) raises
PaddingFailure(text) ==
    /\ written' = written
    /\ pc' = "raised"
    /\ failure' = Failure("ValueError",
                          "invalid literal for int() with base 10: '" \o text \o "'")

Sequenced(rows, prefix, padding_text) ==
    IF prefix = "" THEN Emit(rows)
    ELSE IF ~IntOf(padding_text).ok THEN PaddingFailure(padding_text)
    ELSE Emit(_apply_id_sequence(rows, prefix, IntOf(padding_text).v))

\* the records numbered before the filter: a filtered-out record takes a number with it
NumberThenFilter ==
    /\ pc = "done"
    /\ IF GetOrEmpty(file_cfg, "id_sequence_prefix") = ""
          \/ ~IntOf(GetOr(file_cfg, "id_sequence_padding", "6")).ok
       THEN Sequenced(_filter_transaction_types(mapped, file_cfg),
                      GetOrEmpty(file_cfg, "id_sequence_prefix"),
                      GetOr(file_cfg, "id_sequence_padding", "6"))
       ELSE Emit(_filter_transaction_types(
                     _apply_id_sequence(mapped, file_cfg.id_sequence_prefix,
                                        IntOf(GetOr(file_cfg, "id_sequence_padding", "6")).v),
                     file_cfg))
    /\ UNCHANGED <<file_cfg, input, context, idx, converted, mapped, base_env>>
    /\ UNCHANGED <<csv_files, dry_run, position, calls, stderr>>

\* process_file from mapped_rows on: filter, renumber, write
FinishFile ==
    /\ pc = "done"
    /\ Sequenced(_filter_transaction_types(mapped, file_cfg),
                 GetOrEmpty(file_cfg, "id_sequence_prefix"),
                 GetOr(file_cfg, "id_sequence_padding", "6"))
    /\ UNCHANGED <<file_cfg, input, context, idx, converted, mapped, base_env>>
    /\ UNCHANGED <<csv_files, dry_run, position, calls, stderr>>

\* what main prints for the exception it caught
Caught(raised, name) ==
    IF raised.type = "MappingConfigurationError"
    THEN "Mapping error in " \o name \o ": " \o raised.exc
    ELSE "Error converting " \o name \o ": " \o raised.exc

\* the exception is not caught: it ends the loop and the run
LeaveLoop ==
    /\ pc = "raised"
    /\ stderr' = Append(stderr, failure.exc)
    /\ failure' = NoFailure
    /\ pc' = "complete"
    /\ UNCHANGED <<file_cfg, input, context, idx, converted, mapped, base_env>>
    /\ UNCHANGED <<csv_files, dry_run, position, calls, written>>

\* except MappingConfigurationError / except Exception: print, go on with the next file
CatchError ==
    /\ pc = "raised"
    /\ stderr' = Append(stderr, Caught(failure, FileName(csv_files[position])))
    /\ failure' = NoFailure
    /\ pc' = "start"
    /\ UNCHANGED <<file_cfg, input, context, idx, converted, mapped, base_env>>
    /\ UNCHANGED <<csv_files, dry_run, position, calls, written>>

\* the loop is over: print("Conversion complete")
Complete ==
    /\ pc = "start"
    /\ position = Len(csv_files)
    /\ pc' = "complete"
    /\ UNCHANGED <<file_cfg, input, context, idx, converted, mapped, failure, base_env>>
    /\ UNCHANGED main_vars

(***************************************************************************)
(* The files of a run: files that map, files that are skipped and files    *)
(* that fail at each place process_file can raise.                         *)
(***************************************************************************)
\* rows as read_csv_rows gives them: every header key in every row, cells stripped
RowOne == ("Id" :> "r1") @@ ("Status" :> "Cancelled") @@ ("Amount" :> "-1.50")
RowTwo == ("Id" :> "r2") @@ ("Status" :> "") @@ ("Amount" :> "2")
RowThree == ("Id" :> "r3") @@ ("Status" :> "") @@ ("Amount" :> "")

\* maps the rows whose Amount is a number; an empty Amount raises in precompute
StatusConfig ==
    RowConfig(<< <<"a", "row['Amount']">>, <<"b", "Decimal(a)">> >>, <<>>,
              ("Id" :> "row['Id']") @@ ("Status" :> "row['Status']") @@ ("Fee" :> "b"),
              ("Exchange" :> VStr("NBX")))

\* no mode (row by default); skips the row of Id r1 and renumbers the records
AmountConfig ==
    ("precompute" :> << <<"a", "row['Amount']">>, <<"b", "decimal(a)">> >>)
    @@ ("skip_when" :> <<"row['Id'] == 'r1'">>)
    @@ ("mapping" :> (("Id" :> "row['Id']") @@ ("FilledQuantity" :> "decimal_to_str(b)")
                      @@ ("Exchange" :> "context['source']")))
    @@ ("id_sequence_prefix" :> "N")

\* reads the name a without binding it
UnboundConfig == RowConfig(<<>>, <<>>, ("Id" :> "a") @@ ("Fee" :> "row_index"), NoEntries)

MatchRows ==
    << LedgerRow("", "M1", "Match", "0.01", "BTC", FiriTimeA),
       LedgerRow("", "M1", "Match", "-500", "NOK", FiriTimeB),
       LedgerRow("S1", "", "BankDeposit", "1000", "NOK", FiriTimeB) >>

LedgerRows ==
    << KrakenRow("T1", "R1", "2024-01-02 09:00:00", "Trade", "eth", "0.5", "0.001"),
       KrakenRow("T2", "R1", "2024-01-01 10:00:00", "trade", "EUR", "-1000", "-2"),
       KrakenRow("T3", "", "2024-01-01 10:00:00.5", "reward", "ETH", "-0.02", "-0.1") >>

MainFilePool ==
    { InputFile("Firi", "matches", [mode |-> "File", handler |-> "firi"], MatchRows),
      InputFile("firi", "padded",
                FileConfig("firi") @@ ("id_sequence_prefix" :> "F")
                @@ ("id_sequence_padding" :> "x"), MatchRows),
      InputFile("kraken", "ledger",
                FileConfig("kraken") @@ ("ignore_transaction_types" :> <<"trade">>)
                @@ ("id_sequence_prefix" :> "K") @@ ("id_sequence_padding" :> "3")
                @@ ("expected_columns" :> <<"txid", "refid">>), LedgerRows),
      InputFile("kraken", "empty", FileConfig("kraken"), <<>>),
      InputFile("nbx", "status", StatusConfig, <<RowOne, RowThree>>),
      InputFile("nbx", "amounts", AmountConfig, <<RowOne, RowTwo>>),
      InputFile("nbx", "skipped", AmountConfig, <<RowOne>>),
      InputFile("nbx", "unbound", UnboundConfig, <<RowTwo>>),
      InputFile("nbx", "columns", StatusConfig @@ ("expected_columns" :> <<"Id", "Price", "Fee">>),
                <<RowOne>>),
      InputFile("nbx", "norows",
                StatusConfig @@ ("expected_columns" :> <<"Id">>) @@ ("require_rows" :> TRUE),
                <<>>),
      InputFile("nbx", "loader", StatusConfig @@ ("loader" :> "nbx_csv"), <<RowOne>>),
      InputFile("coinbase", "account", FileConfig("coinbase"), <<RowOne>>),
      InputFile("coinbase", "nohandler", [mode |-> "file"], <<RowOne>>),
      InputFile("other", "batch", [mode |-> "batch"], <<RowOne>>),
      InputFile("other", "ignored", [mode |-> "skip", reason |-> "not a ledger"], <<RowOne>>),
      InputFile("other", "unknown", NoFileConfig, <<RowOne>>) }

\* get_csv_files: distinct paths; main exits at once when there is none
MainFileLists ==
    {files \in SeqsUpTo(MainFilePool, MaxFiles) :
        /\ files # <<>>
        /\ \A i, j \in 1..Len(files) : i # j => files[i] # files[j]}

MainInit ==
    /\ AtRest
    /\ csv_files \in MainFileLists
    /\ dry_run \in BOOLEAN

MainNext ==
    \/ ProcessFile
    \/ MapFiriFile
    \/ MapKrakenLedger
    \/ RefuseHandler
    \/ ApplyRowMapping
    \/ ReturnMapped
    \/ FinishFile
    \/ CatchError
    \/ Complete

MainSpec == MainInit /\ [][MainNext]_vars

(***************************************************************************)
(* The files of a run whose configurations filter and renumber: an ignore  *)
(* list in either case, a prefix with a padding that is positive, zero,    *)
(* absent or not a number, and a filter that leaves nothing.                *)
(***************************************************************************)
\* sorted by time: the deposit S2, the reward S3, the match M2, the withdrawal S5
RenumberRows ==
    << LedgerRow("S5", "", "BankWithdrawal", "-200", "NOK", IsoTimeC),
       LedgerRow("", "M2", "Match", "0.01", "BTC", FiriTimeA),
       LedgerRow("S3", "", "StakingReward", "0.5", "ETH", FiriTimeA),
       LedgerRow("", "M2", "Match", "-500", "NOK", FiriTimeA),
       LedgerRow("S2", "", "BankDeposit", "1000", "NOK", FiriTimeB) >>

\* the TransactionType of a record is the Status cell of its row, in the case of the cell
TypedConfig ==
    RowConfig(<<>>, <<>>, ("Id" :> "row['Id']") @@ ("TransactionType" :> "row['Status']"),
              NoEntries)

SequenceFilePool ==
    { InputFile("firi", "renumbered",
                FileConfig("firi") @@ ("ignore_transaction_types" :> <<"staking_reward", "Trade">>)
                @@ ("id_sequence_prefix" :> "F") @@ ("id_sequence_padding" :> "2"),
                RenumberRows),
      InputFile("firi", "filtered",
                FileConfig("firi") @@ ("ignore_transaction_types" :> <<"Deposit">>),
                RenumberRows),
      InputFile("firi", "numbered", FileConfig("firi") @@ ("id_sequence_prefix" :> "firi"),
                RenumberRows),
      InputFile("firi", "padded",
                FileConfig("firi") @@ ("id_sequence_prefix" :> "F")
                @@ ("id_sequence_padding" :> "x"), MatchRows),
      InputFile("kraken", "ledger",
                FileConfig("kraken") @@ ("ignore_transaction_types" :> <<"trade">>)
                @@ ("id_sequence_prefix" :> "K") @@ ("id_sequence_padding" :> "3"),
                LedgerRows),
      InputFile("nbx", "typed",
                TypedConfig @@ ("ignore_transaction_types" :> <<"CANCELLED">>)
                @@ ("id_sequence_prefix" :> "T") @@ ("id_sequence_padding" :> "0"),
                <<RowTwo, RowOne, RowThree>>),
      InputFile("nbx", "allgone",
                TypedConfig @@ ("ignore_transaction_types" :> <<"cancelled">>)
                @@ ("id_sequence_prefix" :> "T") @@ ("id_sequence_padding" :> "-1"),
                <<RowOne>>) }

SequenceFileLists ==
    {files \in SeqsUpTo(SequenceFilePool, MaxFiles) :
        /\ files # <<>>
        /\ \A i, j \in 1..Len(files) : i # j => files[i] # files[j]}

SequenceInit ==
    /\ AtRest
    /\ csv_files \in SequenceFileLists
    /\ dry_run \in BOOLEAN

\* every file of these runs has a handler, so _process_with_file_handler finds it
SequenceNext ==
    \/ ProcessFile
    \/ MapFiriFile
    \/ MapKrakenLedger
    \/ ApplyRowMapping
    \/ ReturnMapped
    \/ FinishFile
    \/ CatchError
    \/ Complete

SequenceSpec == SequenceInit /\ [][SequenceNext]_vars
(***************************************************************************)
(* Properties.  The records of a file normalizer are in `mapped` once its  *)
(* action has run; the result of the last apply_row_mapping call is        *)
(* `converted`, and the records of a row-mapped file gather in `mapped`.   *)
(***************************************************************************)
FileMode == ModeOf(file_cfg) = "file"
RowMode == ModeOf(file_cfg) = "row"
Normalized(handler) == FileMode /\ file_cfg.handler = handler /\ pc = "done"

HasAllColumns(rec) == Keys(rec) = OUTPUT_HEADERS

\* a column with neither a mapping expression nor a default is the empty string
UnsetAreEmpty(rec, cfg) ==
    \A i \in 1..Len(rec) :
        (rec[i][1] \notin DOMAIN cfg.mapping /\ rec[i][1] \notin DOMAIN cfg.defaults)
            => rec[i][2] = ""

\* C1: every record of a normalizer and every record apply_row_mapping returns has
\* exactly the thirteen keys of OUTPUT_HEADERS, in that order, and a column that
\* nothing fills is present as the empty string.
C1_AllColumnsInOrder ==
    /\ \A i \in 1..Len(mapped) : HasAllColumns(mapped[i])
    /\ (RowMode /\ converted.kind = "record")
        => HasAllColumns(converted.record) /\ UnsetAreEmpty(converted.record, file_cfg)

\* a row-mapped file of two rows, both mapped, whose first record has an empty column
C1_Witness ==
    /\ RowMode
    /\ pc = "done"
    /\ Len(mapped) = 2
    /\ converted.kind = "record"
    /\ Field(mapped[1], "timeStamp") = ""
    /\ Field(mapped[1], "Exchange") = "NBX"

NonNegativeText(text) == text = "" \/ (DecimalOf(text).some /\ DecGeqZero(DecimalOf(text)))

\* C2: in every record of a normalizer, FilledQuantity, FilledQuote and Fee are each
\* the empty string or a decimal text of value >= 0, whatever the signs in the rows.
C2_AmountsNonNegative ==
    FileMode =>
        \A i \in 1..Len(mapped) :
            /\ NonNegativeText(Field(mapped[i], "FilledQuantity"))
            /\ NonNegativeText(Field(mapped[i], "FilledQuote"))
            /\ NonNegativeText(Field(mapped[i], "Fee"))

\* a reference-id ledger row with a negative amount and a negative fee, mapped
C2_Witness ==
    /\ Normalized("kraken")
    /\ \E j \in 1..Len(input) : input[j].amount = "-0.02" /\ input[j].fee = "-0.1"
    /\ \E i \in 1..Len(mapped) :
        Field(mapped[i], "FilledQuantity") = "0.02" /\ Field(mapped[i], "Fee") = "0.1"

\* C3: within the records of one normalizer call no two records have the same Id.
C3_IdsUnique ==
    FileMode =>
        \A i, j \in 1..Len(mapped) :
            i # j => Field(mapped[i], "Id") # Field(mapped[j], "Id")

ExchangePrefix(handler) ==
    CASE handler = "firi" -> "firi-"
      [] handler = "coinbase" -> "coinbase-"
      [] handler = "nbx" -> "nbx-"
      [] handler = "kraken" -> "kraken-"

\* C4: every record of a normalizer has an Id that starts with the prefix of its
\* exchange: firi-, coinbase-, nbx-, and kraken- for the reference-id ledger.
C4_IdsExchangePrefixed ==
    FileMode =>
        \A i \in 1..Len(mapped) :
            StartsWith(Field(mapped[i], "Id"), ExchangePrefix(file_cfg.handler))

\* C5: every record of a normalizer has Side BUY, SELL, DEPOSIT or WITHDRAW.
C5_SideIsKnown ==
    FileMode =>
        \A i \in 1..Len(mapped) :
            Field(mapped[i], "Side") \in {"BUY", "SELL", "DEPOSIT", "WITHDRAW"}

\* an account-export row of type Withdrawal, mapped with Side WITHDRAW
C5_Witness ==
    /\ Normalized("coinbase")
    /\ \E i \in 1..Len(mapped) :
        Field(mapped[i], "Side") = "WITHDRAW" /\ Field(mapped[i], "Id") = "coinbase-c4"

SkipEntries(log) == SelectSeq(log, LAMBDA entry : entry.label = "skip_when")
ColumnEntries(log) == SelectSeq(log, LAMBDA entry : StartsWith(entry.label, "column:"))
PrecomputeEntries(log) == SelectSeq(log, LAMBDA entry : StartsWith(entry.label, "precompute:"))

\* the predicates evaluated are the first ones declared, in order
InDeclaredOrder(evaluated, declared) ==
    /\ Len(evaluated) <= Len(declared)
    /\ \A i \in 1..Len(evaluated) : evaluated[i].expression = declared[i]

\* the call of the last row with another mapping in the file configuration
WithMapping(mapping) ==
    apply_row_mapping(input[idx], [file_cfg EXCEPT !.mapping = mapping], RowContext(Context, idx))

\* C6: when a skip_when predicate evaluates truthy the call returns absent, it is the
\* last expression evaluated (no later predicate, no mapping expression), the outcome
\* is absent under every other mapping too, and predicates run in declared order.
C6_SkipShortCircuits ==
    RowMode =>
        /\ InDeclaredOrder(SkipEntries(converted.log), file_cfg.skip_when)
        /\ \A i \in 1..Len(converted.log) :
            (converted.log[i].label = "skip_when" /\ converted.log[i].truthy)
                => /\ converted.kind = "absent"
                   /\ converted.record = <<>>
                   /\ i = Len(converted.log)
                   /\ ColumnEntries(converted.log) = <<>>
                   /\ \A mapping \in MappingPool : WithMapping(mapping).kind = "absent"
        /\ converted.kind = "absent"
            => converted.log # <<>> /\ converted.log[Len(converted.log)].truthy

\* a row skipped by the first of two predicates, under a mapping whose expression
\* would not compile and a second predicate that would fail
C6_Witness ==
    /\ RowMode
    /\ converted.kind = "absent"
    /\ file_cfg.skip_when = <<"row['Amount'] == '-1.50'", "row['Missing']">>
    /\ Len(SkipEntries(converted.log)) = 1
    /\ "ExchangeId" \in DOMAIN file_cfg.mapping
    /\ file_cfg.mapping["ExchangeId"] = "row["
    /\ mapped = <<>>

\* the records of the match groups: match id with the fields computed for the group
MatchRecords(records) ==
    {<<Field(rec, "Id"), Field(rec, "Market"), Field(rec, "Side"), Field(rec, "FilledQuantity"),
       Field(rec, "FilledQuote"), Field(rec, "FilledPrice"), Field(rec, "Fee"),
       Field(rec, "FeeCurrency"), Field(rec, "timeStamp")>> :
        rec \in {records[i] : i \in {k \in 1..Len(records) :
                                        StartsWith(Field(records[k], "Id"), "firi-match-")}}}

Reorderings(rows) ==
    {[i \in 1..Len(rows) |-> rows[order[i]]] :
        order \in {f \in [1..Len(rows) -> 1..Len(rows)] :
                      \A a, b \in 1..Len(rows) : a # b => f[a] # f[b]}}

\* C7: the ledger-style normalizer gives the same match-group records (match id,
\* Market, Side, FilledQuantity, FilledQuote, FilledPrice, Fee, FeeCurrency,
\* timeStamp) for every permutation of the rows of a file.
C7_MatchRecordsOrderFree ==
    Normalized("firi") =>
        \A rows \in Reorderings(input) :
            MatchRecords(map_firi_file(rows)) = MatchRecords(mapped)

\* C8: when a precompute, skip_when or mapping expression fails, the call raises
\* MappingConfigurationError and returns no record; the message holds the expression
\* text, the label of the target (precompute:<name>, skip_when, column:<field>) and
\* the row index, and nothing is evaluated after the failure.
C8_FailureIsConfigurationError ==
    RowMode =>
        \A i \in 1..Len(converted.log) :
            ~converted.log[i].ok
                => /\ converted.kind = "raised"
                   /\ pc = "raised"
                   /\ converted.type = "MappingConfigurationError"
                   /\ converted.record = <<>>
                   /\ i = Len(converted.log)
                   /\ Contains(converted.exc, "'" \o converted.log[i].expression \o "'")
                   /\ Contains(converted.exc, " for " \o converted.log[i].label \o " ")
                   /\ Contains(converted.exc, "(row " \o IntToStr(idx) \o ")")

\* the second row of a file fails in a mapping expression after its Id column was
\* computed, the first row having been skipped
C8_Witness ==
    /\ RowMode
    /\ pc = "raised"
    /\ idx = 2
    /\ converted.at = "column:ExchangeId"
    /\ Len(converted.log) > 1
    /\ converted.log[Len(converted.log) - 1].label = "column:Id"
    /\ converted.log[Len(converted.log)].cause = "SyntaxError"

\* the call ended in _normalize_output_value refusing a dict or a list
CompositeRefused ==
    /\ converted.kind = "raised"
    /\ (converted.log = <<>> \/ converted.log[Len(converted.log)].ok)

\* C9: when the value of an output column is a dict or a list, the call raises a
\* configuration error instead of returning a record, and the error carries the
\* expression text (when the value came from an expression), the field name and the
\* row index.
C9_CompositeErrorNamesColumn ==
    (RowMode /\ CompositeRefused)
        => /\ converted.type = "MappingConfigurationError"
           /\ converted.record = <<>>
           /\ Contains(converted.exc, converted.source)
           /\ Contains(converted.exc, SubSeq(converted.at, 8, Len(converted.at)))
           /\ Contains(converted.exc, "row " \o IntToStr(idx))

PrecomputeNames(cfg) == {cfg.precompute[i][1] : i \in 1..Len(cfg.precompute)}

\* the log entries of the precompute stage are the first entries declared, in order
PrecomputeInOrder(evaluated, declared) ==
    /\ Len(evaluated) <= Len(declared)
    /\ \A i \in 1..Len(evaluated) :
        /\ evaluated[i].label = "precompute:" \o declared[i][1]
        /\ evaluated[i].expression = declared[i][2]

\* the last entry before position i that binds the name
LastBinding(log, name, i) ==
    Greatest({j \in 1..(i - 1) : log[j].label = "precompute:" \o name})

\* an expression that is the bare name of a precompute entry evaluates to the value
\* last bound to it, and fails with NameError when no entry has bound it yet
SeesBinding(log, i, name) ==
    IF \E j \in 1..(i - 1) : log[j].label = "precompute:" \o name
    THEN /\ log[i].ok
         /\ log[i].type = log[LastBinding(log, name, i)].type
         /\ log[i].text = log[LastBinding(log, name, i)].text
    ELSE name \in DOMAIN _build_environment(input[idx], RowContext(Context, idx))
         \/ (~log[i].ok /\ log[i].cause = "NameError")

\* C10: the precompute entries are evaluated in declared order, all of them before any
\* skip_when predicate or mapping expression, and a name bound by an entry is seen by
\* every later expression of the call, an earlier entry not seeing a later one.
C10_PrecomputeBindsInOrder ==
    RowMode =>
        /\ PrecomputeInOrder(PrecomputeEntries(converted.log), file_cfg.precompute)
        /\ \A i \in 1..Len(converted.log) :
            /\ StartsWith(converted.log[i].label, "precompute:")
                => \A j \in 1..(i - 1) : StartsWith(converted.log[j].label, "precompute:")
            /\ ~StartsWith(converted.log[i].label, "precompute:")
                => Len(PrecomputeEntries(converted.log)) = Len(file_cfg.precompute)
            /\ converted.log[i].expression \in PrecomputeNames(file_cfg)
                => SeesBinding(converted.log, i, converted.log[i].expression)

\* b is computed from a, and a mapping expression reads b after two falsy predicates
C10_Witness ==
    /\ RowMode
    /\ converted.kind = "record"
    /\ file_cfg.precompute = << <<"a", "row['Amount']">>, <<"b", "decimal(a)">> >>
    /\ file_cfg.skip_when = <<"False", "row['Amount'] == '2'">>
    /\ \E i \in 1..Len(converted.log) :
        /\ converted.log[i].label = "column:FilledQuote"
        /\ converted.log[i].expression = "b"
        /\ converted.log[i].text = "-1.5"
    /\ Field(converted.record, "FilledQuote") = "-1.5"

(***************************************************************************)
(* Properties of a run of main.                                            *)
(***************************************************************************)
\* main printed an error line for the file
Reported(file) ==
    \E i \in 1..Len(stderr) :
        \/ StartsWith(stderr[i], "Mapping error in " \o FileName(file) \o ": ")
        \/ StartsWith(stderr[i], "Error converting " \o FileName(file) \o ": ")

\* an output file was written in the turn of the loop
WrittenIn(turn) == \E i \in 1..Len(written) : written[i].turn = turn

\* C11: an exception raised while a file is processed ends that file only: no output
\* is written in its turn of the loop, process_file is called once for each file taken
\* so far, in the order of the list, and the run ends only when every file was taken.
C11_ErrorEndsOneFileOnly ==
    /\ calls = [k \in 1..position |-> FileName(csv_files[k])]
    /\ \A k \in 1..position : Reported(csv_files[k]) => ~WrittenIn(k)
    /\ pc = "raised" => ~WrittenIn(position)
    /\ pc = "complete" => position = Len(csv_files)

\* a file whose second row fails after its first row was mapped, then a file that maps:
\* one error line, and the only output is the second file's
C11_Witness ==
    /\ pc = "complete"
    /\ ~dry_run
    /\ Len(csv_files) = 2
    /\ csv_files[1].stem = "status"
    /\ csv_files[2].stem = "amounts"
    /\ Len(stderr) = 1
    /\ Reported(csv_files[1])
    /\ Len(written) = 1
    /\ written[1].turn = 2
    /\ written[1].name = "amounts_mapped.csv"

(***************************************************************************)
(* Properties of the normalizers.                                          *)
(***************************************************************************)
\* the stripped, non-empty keys of the first row
FirstRowKeys == {Strip(key) : key \in {k \in DOMAIN input[1] : k # ""}}

\* C12: map_firi_file picks the sub-algorithm from the keys of the first row alone:
\* ledger-style when Action is among them, else trade-list when Trade is, else
\* order-list when Order ID is; with none of the three, or with no rows, it returns
\* the empty list (and ends without an exception).
C12_FirstRowPicksAlgorithm ==
    Normalized("firi") =>
        IF input = <<>> THEN mapped = <<>>
        ELSE /\ "Action" \in FirstRowKeys => mapped = EnsureAll(_map_transactions(input))
             /\ ("Action" \notin FirstRowKeys /\ "Trade" \in FirstRowKeys)
                    => mapped = EnsureAll(_map_trades(input))
             /\ ({"Action", "Trade"} \cap FirstRowKeys = {} /\ "Order ID" \in FirstRowKeys)
                    => mapped = EnsureAll(_map_orders(input))
             /\ {"Action", "Trade", "Order ID"} \cap FirstRowKeys = {} => mapped = <<>>

\* a first row with Trade and Order ID but no Action, followed by a ledger row:
\* the one record is the trade's
C12_Witness ==
    /\ Normalized("firi")
    /\ Len(input) = 2
    /\ DOMAIN input[1] \cap {"Action", "Trade", "Order ID"} = {"Trade", "Order ID"}
    /\ "Action" \in DOMAIN input[2]
    /\ Len(mapped) = 1
    /\ Field(mapped[1], "Id") = "firi-trade-t9"

\* the Match legs of a match group, and the currencies they name
MatchLegs(rows) == SelectSeq(rows, LAMBDA r : ActionOf(r) = MATCH_ACTION)
LegCurrencies(legs) ==
    {Upper(GetOrEmpty(legs[i], "Currency")) : i \in 1..Len(legs)} \ {""}

RECURSIVE LegSum(_, _)
\* the sum of the amounts of the legs in the currency (an unreadable amount counts 0)
LegSum(legs, currency) ==
    IF legs = <<>> THEN DecZero
    ELSE DecAdd(LegSum(SubSeq(legs, 1, Len(legs) - 1), currency),
                IF Upper(GetOrEmpty(legs[Len(legs)], "Currency")) = currency
                THEN OrZero(parse_decimal(Get(legs[Len(legs)], "Amount")))
                ELSE DecZero)

\* the sum of the legs in each currency they name
LegSums(legs) == [c \in LegCurrencies(legs) |-> LegSum(legs, c)]

\* the currencies the selection is made among: those that pass the filter when there
\* are any, all of them otherwise
Eligible(sums, fiat) ==
    IF \E c \in DOMAIN sums : is_fiat(c) = fiat
    THEN {c \in DOMAIN sums : is_fiat(c) = fiat}
    ELSE DOMAIN sums

\* no eligible currency has a larger absolute sum
IsLargest(sums, fiat, currency) ==
    /\ currency \in Eligible(sums, fiat)
    /\ \A other \in Eligible(sums, fiat) : ~DecAbsGreater(sums[other], sums[currency])

\* the record shows base and quote as the selected currencies with their sums
ShowsSelection(rec, sums) ==
    IF DOMAIN sums = {}
    THEN /\ Field(rec, "Market") = format_market("", "UNKNOWN")
         /\ Field(rec, "FilledQuantity") = "0"
         /\ Field(rec, "FilledQuote") = "0"
    ELSE \E base \in DOMAIN sums, quote \in DOMAIN sums :
            /\ Field(rec, "Market") = format_market(base, quote)
            /\ IsLargest(sums, FALSE, base)
            /\ IsLargest(sums, TRUE, quote)
            /\ Field(rec, "FilledQuantity") = abs_decimal_to_str(DecAbs(sums[base]))
            /\ Field(rec, "FilledQuote") = abs_decimal_to_str(DecAbs(sums[quote]))

\* the record of the match id shows what the predicate says of the sums of the legs
MatchShown(match_id, sums, Shows(_, _)) ==
    \E i \in 1..Len(mapped) :
        /\ Field(mapped[i], "Id") = "firi-match-" \o match_id
        /\ Shows(mapped[i], sums)

\* the scenario of the specification: +0.01 BTC and -500 NOK with a fee of -1 NOK
ScenarioRows ==
    << LedgerRow("", "M1", "Match", "0.01", "BTC", FiriTimeA),
       LedgerRow("", "M1", "Match", "-500", "NOK", FiriTimeB),
       LedgerRow("", "M1", "MatchFee", "-1", "NOK", FiriTimeA) >>

MatchGroups == _group_matches(input)

\* every match group has a record that shows what the predicate says of its legs
EachMatchShown(groups, Shows(_, _)) ==
    \A g \in 1..Len(groups) :
        MatchShown(groups[g].match_id, LegSums(MatchLegs(groups[g].rows)), Shows)

\* C13: the record of each match group has as base the non-fiat currency of the largest
\* absolute sum of the Match legs and as quote the fiat currency of the largest absolute
\* sum, either one falling back to the largest of all currencies when none passes the
\* filter and to empty when the group has no Match leg; and the scenario's three rows
\* give one TRADE record of Market BTC-NOK, Fee 1, FeeCurrency NOK.
C13_BaseAndQuoteByLargestSum ==
    (Normalized("firi") /\ input # <<>> /\ "Action" \in FirstRowKeys) =>
        /\ EachMatchShown(MatchGroups, ShowsSelection)
        /\ input = ScenarioRows =>
            /\ Len(mapped) = 1
            /\ Field(mapped[1], "TransactionType") = "TRADE"
            /\ Field(mapped[1], "Market") = "BTC-NOK"
            /\ Field(mapped[1], "Fee") = "1"
            /\ Field(mapped[1], "FeeCurrency") = "NOK"

\* the scenario's file, mapped
C13_Witness ==
    /\ Normalized("firi")
    /\ input = ScenarioRows
    /\ Len(mapped) = 1
    /\ Field(mapped[1], "Id") = "firi-match-M1"
    /\ Field(mapped[1], "FilledQuote") = "500"


DecLeq(a, b) == Scaled(a, MinExp(a, b)) <= Scaled(b, MinExp(a, b))

\* the first characters of a price text, without a trailing point
PricePrefix(text) == RStripChar(SubSeq(text, 1, 7), ".")

\* one unit in the last place of d
UlpOf(d) == Dec(FALSE, 1, d.exp)

\* low <= quote / quantity <= low + one unit in the last place of low
Brackets(low, quote, quantity) ==
    /\ low.some
    /\ DecLeq(DecMul(low, quantity), quote)
    /\ DecLeq(quote, DecMul(DecAdd(low, UlpOf(low)), quantity))

\* the text denotes quote / quantity: checked by multiplication, exactly for a short
\* text and on its leading digits for a long one
IsQuotient(text, quote, quantity) ==
    IF Len(text) <= 7
    THEN DecimalOf(text).some /\ DecEq(DecMul(DecimalOf(text), quantity), quote)
    ELSE Brackets(DecimalOf(PricePrefix(text)), quote, quantity)

PriceShown(rec, base_sum, quote_sum) ==
    IF DecTruthy(base_sum) /\ DecTruthy(quote_sum)
    THEN IsQuotient(Field(rec, "FilledPrice"), DecAbs(quote_sum), DecAbs(base_sum))
    ELSE Field(rec, "FilledPrice") = ""

\* the record shows the side of the base sum and the price of the two sums
ShowsSideAndPrice(rec, sums) ==
    IF DOMAIN sums = {}
    THEN Field(rec, "Side") = "BUY" /\ Field(rec, "FilledPrice") = ""
    ELSE \E base \in DOMAIN sums, quote \in DOMAIN sums :
            /\ Field(rec, "Market") = format_market(base, quote)
            /\ IsLargest(sums, FALSE, base)
            /\ IsLargest(sums, TRUE, quote)
            /\ Field(rec, "Side") = (IF DecGeqZero(sums[base]) THEN "BUY" ELSE "SELL")
            /\ PriceShown(rec, sums[base], sums[quote])

\* C14: the record of each match group has Side BUY when the sum of the selected base
\* currency is >= 0 and SELL otherwise, and FilledPrice |quote sum| / |base sum| when
\* both sums are nonzero and empty otherwise.
C14_SideAndPriceOfSums ==
    (Normalized("firi") /\ input # <<>> /\ "Action" \in FirstRowKeys) =>
        EachMatchShown(MatchGroups, ShowsSideAndPrice)

\* a bought group (+0.01 BTC for -500 NOK: price 50000) and a sold one (-2 btc)
C14_Witness ==
    /\ Normalized("firi")
    /\ Len(input) = 3
    /\ Len(mapped) = 2
    /\ \E i, j \in 1..2 :
        /\ Field(mapped[i], "Id") = "firi-match-M1"
        /\ Field(mapped[i], "Side") = "BUY"
        /\ Field(mapped[i], "FilledPrice") = "50000"
        /\ Field(mapped[j], "Id") = "firi-match-M2"
        /\ Field(mapped[j], "Side") = "SELL"
        /\ Field(mapped[j], "FilledPrice") = "1"

\* the timeStamp strings never decrease along the list
InTimeOrder(records) ==
    \A i \in 1..(Len(records) - 1) :
        StrLeq(Field(records[i], "timeStamp"), Field(records[i + 1], "timeStamp"))

\* C15: the list returned by the ledger-style normalizer and the list returned by the
\* reference-id ledger normalizer are in non-decreasing lexicographic order of the
\* timeStamp string, whatever the order of the input rows.
C15_SortedByTimeStamp ==
    /\ (Normalized("firi") /\ input # <<>> /\ "Action" \in FirstRowKeys) => InTimeOrder(mapped)
    /\ Normalized("kraken") => InTimeOrder(mapped)

\* a match group of a late row first in the file, a reward of an earlier time and a
\* match group without a time: the reward's record comes between the two match records
C15_Witness ==
    /\ Normalized("firi")
    /\ Len(input) = 3
    /\ ActionOf(input[1]) = MATCH_ACTION
    /\ ActionOf(input[2]) = STAKING_REWARD_ACTION
    /\ Len(mapped) = 3
    /\ Field(mapped[1], "Id") = "firi-match-M2"
    /\ Field(mapped[1], "timeStamp") = ""
    /\ Field(mapped[2], "TransactionType") = "STAKING_REWARD"
    /\ Field(mapped[3], "Id") = "firi-match-M1"
    /\ StrLess(Field(mapped[2], "timeStamp"), Field(mapped[3], "timeStamp"))

\* the data rows of an account export that give a record, in file order
CoinbaseRows ==
    SelectSeq(_extract_account_and_rows(input).rows, LAMBDA r : Strip(GetOr(r, "ID", "")) # "")

LabelOf(row) == Lower(Strip(GetOr(row, "Transaction Type", "")))
QuantityOf(row) == OrZero(parse_decimal(Get(row, "Quantity Transacted")))

\* the sides of the substrings the label contains
LabelSides(label) ==
    {pair[2] : pair \in {p \in {<<"withdraw", "WITHDRAW">>, <<"deposit", "DEPOSIT">>,
                                <<"sell", "SELL">>, <<"buy", "BUY">>} : Contains(label, p[1])}}

\* C16: in the account-export normalizer Side is decided by the transaction-type label
\* whenever the label contains withdraw, deposit, sell or buy (WITHDRAW, DEPOSIT, SELL,
\* BUY), and by the sign of the quantity (negative: SELL, otherwise BUY) only when it
\* contains none of them; a label containing buy gives BUY for every quantity.
C16_SideByLabel ==
    Normalized("coinbase") =>
        /\ Len(mapped) = Len(CoinbaseRows)
        /\ \A i \in 1..Len(mapped) :
            IF LabelSides(LabelOf(CoinbaseRows[i])) # {}
            THEN Field(mapped[i], "Side") \in LabelSides(LabelOf(CoinbaseRows[i]))
            ELSE Field(mapped[i], "Side")
                    = (IF DecNegative(QuantityOf(CoinbaseRows[i])) THEN "SELL" ELSE "BUY")

\* the lines under the header line of an account export (none without a header)
LinesUnderHeader ==
    IF HeaderIndex(input) = 0 THEN <<>>
    ELSE SelectSeq(SubSeq(input, HeaderIndex(input) + 1, Len(input)), LAMBDA l : l # "")

\* the transaction ids of the lines under the header that have one, in file order
DataIds ==
    SelectSeq([i \in 1..Len(LinesUnderHeader) |-> Strip(Split(LinesUnderHeader[i], ",")[1])],
              LAMBDA id : id # "")

\* the lines above the header line (all lines without a header)
Preamble ==
    IF HeaderIndex(input) = 0 THEN input ELSE SubSeq(input, 1, HeaderIndex(input) - 1)

\* the non-empty account identifiers of the metadata lines of the preamble
AccountIds ==
    {Strip(Split(Strip(Preamble[i]), ",")[3]) :
        i \in {k \in 1..Len(Preamble) : /\ StartsWith(Strip(Preamble[k]), "User,")
                                        /\ Len(Split(Strip(Preamble[k]), ",")) >= 3}} \ {""}

\* one record for each transaction id, in file order, with the ExchangeId of the claim
RecordsShow(ids, accounts) ==
    /\ Len(mapped) = Len(ids)
    /\ \A i \in 1..Len(mapped) :
        /\ Field(mapped[i], "Id") = "coinbase-" \o ids[i]
        /\ accounts # {} => Field(mapped[i], "ExchangeId") \in accounts
        /\ accounts = {} => Field(mapped[i], "ExchangeId") = ids[i]

TradeGroups ==
    SelectSeq(_group_by_refid(NormalizeAll(SelectSeq(input, LAMBDA r : Truthy(Get(r, "txid"))))),
              LAMBDA group : group[1].event_type \in {"trade", "spend", "receive"})

\* the first row of a sequence as <<row>>, <<>> when there is none
FirstOf(rows) == IF rows = <<>> THEN <<>> ELSE <<rows[1]>>

\* the receive leg and the spend leg of a group
ReceiveLeg(group) == FirstOf(SelectSeq(group, LAMBDA r : DecPositive(r.amount)))
SpendLeg(group) == FirstOf(SelectSeq(group, LAMBDA r : DecNegative(r.amount)))

\* the record has the base leg and the quote leg, and the side
ShowsLegs(rec, base, quote, side) ==
    /\ Field(rec, "Market") = format_market(base.asset, quote.asset)
    /\ Field(rec, "FilledQuantity") = abs_decimal_to_str(base.amount)
    /\ Field(rec, "FilledQuote") = abs_decimal_to_str(quote.amount)
    /\ Field(rec, "Side") = side

\* the record has the one leg as base, no quote, and the side
ShowsOneLeg(rec, base, side) ==
    /\ Field(rec, "Market") = format_market(base.asset, "")
    /\ Field(rec, "FilledQuantity") = abs_decimal_to_str(base.amount)
    /\ Field(rec, "FilledQuote") = ""
    /\ Field(rec, "Side") = side

\* what the claim says of a record, given the receive and spend legs (<<row>> or <<>>)
ShowsTradeGroup(rec, receive, spend) ==
    IF receive # <<>> /\ spend # <<>>
    THEN /\ (is_fiat(receive[1].asset) /\ ~is_fiat(spend[1].asset))
                => ShowsLegs(rec, spend[1], receive[1], "SELL")
         /\ (is_fiat(spend[1].asset) /\ ~is_fiat(receive[1].asset))
                => ShowsLegs(rec, receive[1], spend[1], "BUY")
    ELSE IF spend # <<>> THEN ShowsOneLeg(rec, spend[1], "SELL")
    ELSE ShowsOneLeg(rec, receive[1], "BUY")

RecordsOfId(id) == {i \in 1..Len(mapped) : Field(mapped[i], "Id") = id}

TradeGroupShown(group, receive, spend) ==
    IF receive = <<>> /\ spend = <<>> THEN RecordsOfId(GroupKey(group[1])) = {}
    ELSE /\ Cardinality(RecordsOfId(GroupKey(group[1]))) = 1
         /\ \A i \in RecordsOfId(GroupKey(group[1])) : ShowsTradeGroup(mapped[i], receive, spend)

LegsShown(group) == TradeGroupShown(group, ReceiveLeg(group), SpendLeg(group))

EachTradeGroupShown(groups) == \A g \in 1..Len(groups) : LegsShown(groups[g])

\* C18: for a trade/spend/receive group, with receive the first row of positive amount
\* and spend the first of negative amount: with both and exactly one fiat currency the
\* fiat leg is the quote and the other the base, Side SELL when the fiat leg is the
\* receive leg and BUY otherwise; with a spend leg only Side is SELL and FilledQuote
\* empty; with a receive leg only Side is BUY and FilledQuote empty; with neither the
\* group gives no record.
C18_TradeGroupLegs == Normalized("kraken") => EachTradeGroupShown(TradeGroups)

\* crypto spent for fiat: -0.1 BTC and +3000 USD of one reference id give a SELL of
\* BTC-USD
C18_Witness ==
    /\ Normalized("kraken")
    /\ Len(input) = 2
    /\ input[1].asset = "USD"
    /\ Len(mapped) = 1
    /\ Field(mapped[1], "Id") = "R3"
    /\ Field(mapped[1], "Side") = "SELL"
    /\ Field(mapped[1], "Market") = "BTC-USD"
    /\ Field(mapped[1], "FilledQuantity") = "0.1"
    /\ Field(mapped[1], "FilledQuote") = "3000"

(***************************************************************************)
(* Properties of parse_decimal and decimal_to_str.                         *)
(***************************************************************************)
\* the row's text was parsed and the result formatted
Formatted == RowMode /\ pc = "done" /\ Len(mapped) = 1 /\ file_cfg = DecimalConfig

AmountText == input[1]["Amount"]
Parsed == parse_decimal(SomeStr(AmountText))
FormattedText == Field(mapped[1], "FilledPrice")

\* C19: for every text that parse_decimal does not return absent for, the text
\* decimal_to_str gives for the parsed value denotes that value, has no trailing
\* fractional zero and no trailing decimal point, and is "0" when the value is zero.
C19_DecimalRoundTrip ==
    (Formatted /\ Parsed.some) =>
        /\ DecimalOf(FormattedText).some
        /\ DecEq(DecimalOf(FormattedText), Parsed)
        /\ Contains(FormattedText, ".") => Char(FormattedText, Len(FormattedText)) \notin {"0", "."}
        /\ Parsed.coef = 0 => FormattedText = "0"

(***************************************************************************)
(* Properties of the calls of apply_row_mapping in a run of main.          *)
(***************************************************************************)
\* a call of apply_row_mapping was made for the file in hand and the loop of
\* _process_with_row_mapping has not returned since (converted is that call's result)
Called == pc \in {"loaded", "raised"} /\ converted.kind # "none"

\* the context process_file built for the file in hand
FileContext == ContextOf(Lower(csv_files[position].source))

\* the environment of a call that starts from the helper library as it is at import
FreshEnvironment(row, row_context) ==
    IndexNames(Bind(Bind(Bind(_BASE_ENV, "row", RowValue(row)), "context", VDict(row_context)),
                    "config", GetOr(row_context, "config", VNone)), row_context)

\* the last call as made from the helper library at import and the file's context
FreshCall ==
    ApplyWith(FreshEnvironment(input[idx], RowContext(FileContext, idx)), file_cfg,
              RowIndexOf(RowContext(FileContext, idx)))

LedgerStyle == Normalized("firi") /\ input # <<>> /\ "Action" \in FirstRowKeys

\* the distinct non-empty match ids of the Match and MatchFee rows
MatchIdsOf(rows) ==
    {MatchIdOf(rows[i]) : i \in {k \in 1..Len(rows) :
                                    ActionOf(rows[k]) \in {MATCH_ACTION, MATCH_FEE_ACTION}}} \ {""}

\* the number of rows of the action
RowsOf(rows, action) == Cardinality({i \in 1..Len(rows) : ActionOf(rows[i]) = action})

\* the positions of the records of the transaction type
RecordsOfType(records, type) ==
    {i \in 1..Len(records) : Field(records[i], "TransactionType") = type}

\* as many records of the type as `count`, each with the side
CountOfType(records, type, side, count) ==
    /\ Cardinality(RecordsOfType(records, type)) = count
    /\ \A i \in RecordsOfType(records, type) : Field(records[i], "Side") = side

\* one TRADE record for each match id, and no other TRADE record
OnePerMatchId(records, ids) ==
    /\ Cardinality(RecordsOfType(records, "TRADE")) = Cardinality(ids)
    /\ {Field(records[i], "Id") : i \in RecordsOfType(records, "TRADE")}
            = {"firi-match-" \o id : id \in ids}

\* C21: the ledger-style normalizer gives exactly one TRADE record for each distinct
\* non-empty match id of a Match or MatchFee row, one STAKING_REWARD record of Side BUY
\* for each StakingReward row, one DEPOSIT record of Side DEPOSIT for each BankDeposit
\* row, one WITHDRAWAL record of Side WITHDRAW for each BankWithdrawal row, and no
\* record for any other row: the number of records is the sum of those counts.
C21_OneRecordPerGroupOrRow ==
    LedgerStyle =>
        /\ OnePerMatchId(mapped, MatchIdsOf(input))
        /\ CountOfType(mapped, "STAKING_REWARD", "BUY", RowsOf(input, STAKING_REWARD_ACTION))
        /\ CountOfType(mapped, "DEPOSIT", "DEPOSIT", RowsOf(input, BANK_DEPOSIT_ACTION))
        /\ CountOfType(mapped, "WITHDRAWAL", "WITHDRAW", RowsOf(input, BANK_WITHDRAW_ACTION))
        /\ Len(mapped) = Cardinality(MatchIdsOf(input)) + RowsOf(input, STAKING_REWARD_ACTION)
                         + RowsOf(input, BANK_DEPOSIT_ACTION)
                         + RowsOf(input, BANK_WITHDRAW_ACTION)

\* a Stake row and a fee row whose match id is on no Match row: one record, the TRADE
\* record of the match id
C21_Witness ==
    /\ LedgerStyle
    /\ Len(input) = 2
    /\ ActionOf(input[1]) = "Stake"
    /\ ActionOf(input[2]) = MATCH_FEE_ACTION
    /\ Len(mapped) = 1
    /\ Field(mapped[1], "Id") = "firi-match-M5"
    /\ Field(mapped[1], "TransactionType") = "TRADE"

(***************************************************************************)
(* Properties of the trade-list normalizer.                                *)
(***************************************************************************)
\* the file in hand was mapped by the trade-list normalizer
TradeList ==
    /\ Normalized("firi")
    /\ input # <<>>
    /\ "Action" \notin FirstRowKeys
    /\ "Trade" \in FirstRowKeys

\* the trade identifier, the numbers and the currencies a trade row states
TradeIdOf(row) == OrStr(GetOrEmpty(row, "Trade"), GetOrEmpty(row, "trade"))
PriceOf(row) == parse_decimal(Get(row, "Price"))
VolumeOf(row) == parse_decimal(Get(row, "Volume"))
CostOf(row) == parse_decimal(Get(row, "Cost"))
VolumeCurrencyOf(row) == Upper(GetOrEmpty(row, "Volume currency"))
MarketBaseOf(row) == Upper(split_market(Upper(GetOrEmpty(row, "Market"))).base)

\* the volume is the base amount: it is stated in the base of the market symbol
VolumeIsBase(row) ==
    VolumeOf(row).some /\ VolumeCurrencyOf(row) # "" /\ VolumeCurrencyOf(row) = MarketBaseOf(row)

\* the base amount is cost / price
CostGivesBase(row) == ~VolumeIsBase(row) /\ CostOf(row).some /\ DecTruthy(PriceOf(row))

\* the row gives a record
Emits(row) == TradeIdOf(row) # "" /\ (VolumeIsBase(row) \/ CostGivesBase(row))

\* |price x base amount| when both are nonzero, else |stated cost| (0 without one)
QuoteFrom(price, base_amount, cost) ==
    IF DecTruthy(price) /\ DecTruthy(base_amount) THEN DecAbs(DecMul(price, base_amount))
    ELSE DecAbs(OrZero(cost))

\* the quote amount of a row that gives a record
QuoteOfRow(row) ==
    QuoteFrom(PriceOf(row), IF VolumeIsBase(row) THEN VolumeOf(row)
                            ELSE DecDiv(CostOf(row), PriceOf(row)), CostOf(row))

\* the record is the one of the row: its Id and its FilledQuote
RecordOfRow(rec, row) ==
    /\ Field(rec, "Id") = "firi-trade-" \o TradeIdOf(row)
    /\ DecimalOf(Field(rec, "FilledQuote")).some
    /\ DecEq(DecimalOf(Field(rec, "FilledQuote")), QuoteOfRow(row))

\* as many records of the row's Id and quote amount as rows that give such a record
SameCount(rows, records, row) ==
    Cardinality({i \in 1..Len(records) : RecordOfRow(records[i], row)})
        = Cardinality({k \in 1..Len(rows) : Emits(rows[k]) /\ TradeIdOf(rows[k]) = TradeIdOf(row)
                                              /\ DecEq(QuoteOfRow(rows[k]), QuoteOfRow(row))})

\* one record for each row that gives one, and no other record
RecordsOfRows(rows, records) ==
    /\ Len(records) = Cardinality({k \in 1..Len(rows) : Emits(rows[k])})
    /\ \A k \in 1..Len(rows) : Emits(rows[k]) => SameCount(rows, records, rows[k])

\* C22: the trade-list normalizer gives exactly one record for each row with a
\* non-empty trade identifier and a derivable base amount (the volume when its currency
\* is the base of the split market symbol, else cost / price when the cost is present
\* and the price nonzero) and nothing, without an exception, for every other row; the
\* FilledQuote of a record is price x base amount when both are nonzero and the stated
\* cost otherwise, as a magnitude.
C22_OneRecordPerTradeRow == TradeList => RecordsOfRows(input, mapped)

\* a row whose volume is in the quote currency (base amount -100 / -4 = 25, quote
\* amount 100) and a row of price 0 whose volume is not in the base: one record
C22_Witness ==
    /\ TradeList
    /\ Len(input) = 2
    /\ TradeIdOf(input[1]) = "t3"
    /\ TradeIdOf(input[2]) = "t2"
    /\ Len(mapped) = 1
    /\ Field(mapped[1], "Id") = "firi-trade-t2"
    /\ Field(mapped[1], "FilledQuantity") = "25"
    /\ Field(mapped[1], "FilledQuote") = "100"

(***************************************************************************)
(* Filtering and renumbering: what process_file writes for the file in     *)
(* hand, told from the records the file mapped to.                         *)
(***************************************************************************)
IgnoredTypes(cfg) ==
    {Upper(ConfigOr(cfg, "ignore_transaction_types", <<>>)[i]) :
        i \in 1..Len(ConfigOr(cfg, "ignore_transaction_types", <<>>))}

\* the positions of the records whose TransactionType is not ignored, whatever its case
KeptPositions(records, ignored) ==
    {i \in 1..Len(records) : Upper(FieldOr(records[i], "TransactionType", "")) \notin ignored}

\* the place of the kept record i among the kept records
RankIn(kept, i) == Cardinality({j \in kept : j <= i})

\* id is <prefix>-<k>, k written in decimal with zeros in front up to `padding` digits
NumberedId(id, prefix, k, padding) ==
    /\ StartsWith(id, prefix \o "-")
    /\ LET digits == SubSeq(id, Len(prefix) + 2, Len(id))
       IN /\ digits # ""
          /\ AllDigits(digits)
          /\ DigitsValue(digits) = k
          /\ Len(digits) = Greatest({padding, Len(IntToStr(k))})

\* the written row is the record in the output columns, its Id replaced under a prefix
WrittenAs(row, rec, prefix, k, padding) ==
    /\ Len(row) = Len(OUTPUT_HEADERS)
    /\ \A h \in 1..Len(OUTPUT_HEADERS) :
          /\ row[h][1] = OUTPUT_HEADERS[h]
          /\ IF OUTPUT_HEADERS[h] = "Id" /\ prefix # ""
             THEN NumberedId(row[h][2], prefix, k, padding)
             ELSE row[h][2] = FieldOr(rec, OUTPUT_HEADERS[h], "")

RenumberedRows(rows, records, kept, prefix, padding) ==
    /\ Len(rows) = Cardinality(kept)
    /\ \A i \in kept : WrittenAs(rows[RankIn(kept, i)], records[i], prefix, RankIn(kept, i), padding)
    /\ prefix # "" =>
          \A a, b \in 1..Len(rows) : a # b => Field(rows[a], "Id") # Field(rows[b], "Id")

WrittenOf(rows, records, cfg) ==
    RenumberedRows(rows, records, KeptPositions(records, IgnoredTypes(cfg)),
                   GetOrEmpty(cfg, "id_sequence_prefix"),
                   IntOf(GetOr(cfg, "id_sequence_padding", "6")).v)

\* C23: the file written for the file in hand holds the records whose TransactionType
\* is not in ignore_transaction_types (compared without regard to case), in the order
\* they were mapped; under an id_sequence_prefix the k-th of them has the Id
\* <prefix>-<k> zero-padded to id_sequence_padding digits, k from 1 with no gap for a
\* filtered-out record, so the written Ids are pairwise distinct.
C23_RenumberAfterFilter ==
    \A e \in 1..Len(written) :
        written[e].turn = position =>
            WrittenOf(written[e].rows, mapped, csv_files[position].file_cfg)

\* four records mapped, the second (a trade) and the third filtered out, the first and
\* the last written as F-01 and F-02
C23_Witness ==
    /\ Len(written) > 0
    /\ written[Len(written)].turn = position
    /\ csv_files[position].stem = "renumbered"
    /\ Len(mapped) = 4
    /\ Field(mapped[2], "TransactionType") = "TRADE"
    /\ Field(mapped[4], "TransactionType") = "WITHDRAWAL"
    /\ Len(written[Len(written)].rows) = 2
    /\ Field(written[Len(written)].rows[1], "Id") = "F-01"
    /\ Field(written[Len(written)].rows[2], "Id") = "F-02"
=============================================================================
